---- MODULE Spec2Model ----
(***************************************************************************)
(* The JIT coordinator of redream (src/jit/jit.c): the code cache with its *)
(* forward and reverse lookup maps, the block meta cache, the compile-unit *)
(* trees, the edges between compiled code, and the fastmem fault handler.  *)
(*                                                                         *)
(* Pointers are modelled as small integers: a code or edge object is named *)
(* by its heap id (0 is NULL), a host address is an offset into the        *)
(* backend's code buffer (0 is NULL, the buffer starts at HostBase), a     *)
(* guest address is the index of a guest block.  An optional compile unit  *)
(* is a sequence of length 0 (NULL) or 1.                                  *)
(***************************************************************************)
EXTENDS Integers, Sequences, FiniteSets, TLC

\* ------------------------------------------------------------- bounds
NumAddrs == 2
CodeBufSize == 2
MaxCodeSize == 2
MaxEdges == 1
MaxVisitToken == 2
MaxInstrs == 3
MaxCycles == 2
MaxBlocks == 2
IrNumAddrs == 3
MaxBlockInstrs == 2

\* ------------------------------------------------------------- constants
\* 0xffffffff, the 32-bit pattern read as a signed integer
INVALID_ADDR == -1
NULL == 0
HostBase == 1

Addrs == 0..(NumAddrs - 1)
HostAddrs == HostBase..(HostBase + CodeBufSize - 1)
\* pointers handed in from outside: NULL, every buffer address, one past it
HostPtrs == NULL..(HostBase + CodeBufSize)

VARIABLES
  code,          \* jit->code: the codes linked in the forward lookup tree
  code_reverse,  \* jit->code_reverse: the codes linked in the reverse tree
  codes,         \* heap of struct jit_code, id -> fields
  meta,          \* jit->meta: guest_addr -> struct jit_block_meta
  edges,         \* heap of struct jit_edge, id -> fields
  visit_token,   \* jit->visit_token
  dispatch,      \* guest dispatcher's direct-lookup cache, guest_addr -> host
  sites,         \* host branch sites: NULL (through dispatch) or direct target
  buf_used,      \* bytes used in the backend's code buffer
  ndebug,        \* the build: TRUE when compiled with NDEBUG (release)
  calls,         \* collaborator calls issued by the last operation, in order
  last,          \* the last public operation, its inputs and its result
  slow,          \* history: what a handled fault has left pending per address
  fault,         \* "none", or why the process died
  analysis,      \* the analyze_code call of a frontend taken on its own
  ir             \* the IR of a compilation taken on its own

vars == <<code, code_reverse, codes, meta, edges, visit_token, dispatch, sites,
          buf_used, ndebug, calls, last, slow, fault, analysis, ir>>

\* The coordinator state as one value, threaded through the C functions.
Jit == [code |-> code, code_reverse |-> code_reverse, codes |-> codes,
        meta |-> meta, edges |-> edges, visit_token |-> visit_token,
        dispatch |-> dispatch, sites |-> sites, buf_used |-> buf_used,
        calls |-> <<>>, fault |-> "none"]

\* ------------------------------------------------------------- helpers
Range(s) == {s[i] : i \in DOMAIN s}

Restrict(f, S) == [x \in S |-> f[x]]

Extend(f, k, v) == [x \in (DOMAIN f) \cup {k} |-> IF x = k THEN v ELSE f[x]]

\* core/list.h list_add: link at the tail
list_add(list, n) == Append(list, n)

\* core/list.h list_remove: unlink the node
list_remove(list, n) == SelectSeq(list, LAMBDA x : x # n)

list_empty(list) == list = <<>>

\* calloc: a fresh object, named by the lowest free id
NewId(heap) == CHOOSE i \in 1..(Cardinality(DOMAIN heap) + 1) : i \notin DOMAIN heap

\* a CHECK that fails aborts the process
Abort(J, why) == [J EXCEPT !.fault = why]

Call(J, c) == [J EXCEPT !.calls = Append(@, c)]

\* v is evaluated once and Body is applied to its value
With(v, Body(_)) == CHOOSE r \in {Body(x) : x \in {v}} : TRUE

\* sequencing: the next statement runs unless the process has died
Then(J, Body(_)) ==
  With(J, LAMBDA K : IF K.fault # "none" THEN K ELSE Body(K))

\* the ids of S in increasing key order (in-order walk of an rb tree)
RECURSIVE InOrder(_, _)
InOrder(S, key) ==
  With(S, LAMBDA T :
    IF T = {} THEN <<>>
    ELSE With(CHOOSE x \in T : \A y \in T : key[x] <= key[y],
              LAMBDA m : <<m>> \o InOrder(T \ {m}, key)))

\* ------------------------------------------------------------- guest
\* struct jit_guest's dispatch interface (hw/sh4/x64/sh4_dispatch)
guest_lookup_code(J, guest_addr) == J.dispatch[guest_addr]

guest_cache_code(J, guest_addr, host_addr) ==
  Call([J EXCEPT !.dispatch[guest_addr] = host_addr],
       <<"cache_code", guest_addr, host_addr>>)

guest_invalidate_code(J, guest_addr) ==
  Call([J EXCEPT !.dispatch[guest_addr] = NULL],
       <<"invalidate_code", guest_addr, NULL>>)

guest_patch_edge(J, branch, host_addr) ==
  Call([J EXCEPT !.sites[branch] = host_addr],
       <<"patch_edge", branch, host_addr>>)

guest_restore_edge(J, branch, guest_addr) ==
  Call([J EXCEPT !.sites[branch] = NULL],
       <<"restore_edge", branch, guest_addr>>)

\* ------------------------------------------------------------- backend
\* struct jit_backend (jit/backend/x64): one fixed-size, append-only buffer
\* the return value of assemble_code: 0 when the buffer cannot take the code
backend_can_assemble(J, size) == J.buf_used + size <= CodeBufSize

backend_assemble_code(J, c, size) ==
  IF backend_can_assemble(J, size)
  THEN Call([J EXCEPT !.codes[c].host_addr = HostBase + J.buf_used,
                      !.codes[c].host_size = size,
                      !.buf_used = @ + size],
            <<"assemble_code", HostBase + J.buf_used, size>>)
  ELSE Call(J, <<"assemble_code", NULL, size>>)

backend_reset(J) ==
  Call([J EXCEPT !.buf_used = 0, !.sites = [h \in HostAddrs |-> NULL]],
       <<"reset", NULL, NULL>>)

\* ------------------------------------------------------------- lookups
jit_lookup_meta(J, guest_addr) == guest_addr \in DOMAIN J.meta

jit_lookup_code(J, guest_addr) ==
  LET hit == {c \in J.code : J.codes[c].guest_addr = guest_addr}
  IN IF hit = {} THEN NULL ELSE CHOOSE c \in hit : TRUE

\* the reverse tree in code_reverse_map_cmp order
ReverseOrder(J) ==
  InOrder(J.code_reverse, [c \in J.code_reverse |-> J.codes[c].host_addr])

\* rb_upper_bound: index of the first node whose key is greater (0: none)
rb_upper_bound(J, order, host_addr) ==
  LET above == {i \in DOMAIN order : J.codes[order[i]].host_addr > host_addr}
  IN IF above = {} THEN 0 ELSE CHOOSE i \in above : \A j \in above : i <= j

\* reverse lookup that trusts the tree and skips the range test
jit_lookup_code_reverse_nocheck(J, host_addr) ==
  With(ReverseOrder(J), LAMBDA order :
    With(rb_upper_bound(J, order, host_addr), LAMBDA rit :
      IF rit = (IF order = <<>> THEN 0 ELSE 1) THEN NULL
      ELSE order[IF rit # 0 THEN rit - 1 ELSE Len(order)]))

\* rb_first is node 1 and rb_last node Len(order); 0 stands for no node
jit_lookup_code_reverse(J, host_addr) ==
  With(ReverseOrder(J), LAMBDA order :
    With(rb_upper_bound(J, order, host_addr), LAMBDA rit :
      IF rit = (IF order = <<>> THEN 0 ELSE 1) THEN NULL
      ELSE With(order[IF rit # 0 THEN rit - 1 ELSE Len(order)], LAMBDA c :
             IF host_addr < J.codes[c].host_addr
                \/ host_addr >= J.codes[c].host_addr + J.codes[c].host_size
             THEN NULL ELSE c)))

jit_is_stale(J, c) ==
  guest_lookup_code(J, J.codes[c].guest_addr) # J.codes[c].host_addr

\* ------------------------------------------------------------- edges
RECURSIVE PatchEach(_, _)
PatchEach(J, list) ==
  IF list = <<>> THEN J
  ELSE With(J, LAMBDA K :
         LET e == Head(list)
             edge == K.edges[e]
         IN PatchEach(IF edge.patched = 0
                      THEN guest_patch_edge([K EXCEPT !.edges[e].patched = 1],
                                            edge.branch,
                                            K.codes[edge.dst].host_addr)
                      ELSE K,
                      Tail(list)))

\* patch_edges that leaves the outgoing side alone
jit_patch_edges_in_only(J, c) ==
  With(J, LAMBDA K : PatchEach(K, K.codes[c].in_edges))

jit_patch_edges(J, c) ==
  With(J, LAMBDA K :
    With(PatchEach(K, K.codes[c].in_edges), LAMBDA K1 :
      PatchEach(K1, K1.codes[c].out_edges)))

RECURSIVE RestoreEach(_, _)
RestoreEach(J, list) ==
  IF list = <<>> THEN J
  ELSE With(J, LAMBDA K :
         LET e == Head(list)
             edge == K.edges[e]
         IN RestoreEach(IF edge.patched # 0
                        THEN guest_restore_edge([K EXCEPT !.edges[e].patched = 0],
                                                edge.branch,
                                                K.codes[edge.dst].guest_addr)
                        ELSE K,
                        Tail(list)))

\* restore_edges that also walks the outgoing edges
jit_restore_edges_both(J, c) ==
  With(J, LAMBDA K :
    RestoreEach(K, K.codes[c].in_edges \o K.codes[c].out_edges))

jit_restore_edges(J, c) ==
  With(J, LAMBDA K : RestoreEach(K, K.codes[c].in_edges))

\* free(edge); freeing an edge a second time corrupts the heap
FreeEdge(J, e) ==
  With(J, LAMBDA K :
    IF e \notin DOMAIN K.edges THEN Abort(K, "double free of an edge")
    ELSE [K EXCEPT !.edges = Restrict(@, DOMAIN @ \ {e})])

\* first loop of jit_invalidate_code, over the incoming edges of c
RECURSIVE UnlinkIn(_, _, _)
UnlinkIn(J, c, list) ==
  IF list = <<>> THEN J
  ELSE With(J, LAMBDA K :
         LET e == Head(list)
         IN With([K EXCEPT !.codes[K.edges[e].src].out_edges = list_remove(@, e)],
                 LAMBDA K1 :
                   UnlinkIn(FreeEdge([K1 EXCEPT !.codes[c].in_edges =
                                                   list_remove(@, e)], e),
                            c, Tail(list))))

\* second loop of jit_invalidate_code, over the outgoing edges of c
RECURSIVE UnlinkOut(_, _, _)
UnlinkOut(J, c, list) ==
  IF list = <<>> THEN J
  ELSE With(J, LAMBDA K :
         LET e == Head(list)
         IN With([K EXCEPT !.codes[c].out_edges = list_remove(@, e)],
                 LAMBDA K1 :
                   UnlinkOut(FreeEdge([K1 EXCEPT !.codes[K.edges[e].dst].in_edges =
                                                    list_remove(@, e)], e),
                             c, Tail(list))))

\* ------------------------------------------------------------- units
\* a compile unit is named by the code that owns it and its path from the root
UnitRef(c, path) == <<c, path>>

RECURSIVE jit_free_compile_unit(_, _, _, _)
jit_free_compile_unit(J, c, u, path) ==
  IF u = <<>> THEN J
  ELSE Then(jit_free_compile_unit(J, c, u[1].branch, Append(path, "branch")),
         LAMBDA K1 :
         Then(jit_free_compile_unit(K1, c, u[1].next, Append(path, "next")),
           LAMBDA K2 :
             IF u[1].meta \notin DOMAIN K2.meta
             THEN Abort(K2, "unit refers to a freed meta")
             ELSE [K2 EXCEPT !.meta[u[1].meta].compile_refs =
                               list_remove(@, UnitRef(c, path))]))

\* invalidate_code without its second loop: outgoing edges stay linked
jit_invalidate_code_in_only(J, c) ==
  With(J, LAMBDA K :
    Then(jit_free_compile_unit(K, c, K.codes[c].root_unit, <<>>), LAMBDA K1 :
      With(guest_invalidate_code([K1 EXCEPT !.codes[c].root_unit = <<>>],
                                 K1.codes[c].guest_addr), LAMBDA K2 :
        With(jit_restore_edges(K2, c), LAMBDA K3 :
          UnlinkIn(K3, c, K3.codes[c].in_edges)))))

\* invalidate_code whose incoming loop stops after the first edge
jit_invalidate_code_one_edge(J, c) ==
  With(J, LAMBDA K :
    Then(jit_free_compile_unit(K, c, K.codes[c].root_unit, <<>>), LAMBDA K1 :
      With(guest_invalidate_code([K1 EXCEPT !.codes[c].root_unit = <<>>],
                                 K1.codes[c].guest_addr), LAMBDA K2 :
        With(jit_restore_edges(K2, c), LAMBDA K3 :
          With(UnlinkIn(K3, c, IF K3.codes[c].in_edges = <<>> THEN <<>>
                               ELSE <<Head(K3.codes[c].in_edges)>>),
               LAMBDA K4 :
            UnlinkOut(K4, c, K4.codes[c].out_edges))))))

\* invalidate_code that drops the unit tree without detaching it from the metas
jit_invalidate_code_leak_units(J, c) ==
  With(J, LAMBDA K :
    With(guest_invalidate_code([K EXCEPT !.codes[c].root_unit = <<>>],
                               K.codes[c].guest_addr), LAMBDA K2 :
      With(jit_restore_edges(K2, c), LAMBDA K3 :
        With(UnlinkIn(K3, c, K3.codes[c].in_edges), LAMBDA K4 :
          UnlinkOut(K4, c, K4.codes[c].out_edges)))))

\* invalidate_code that leaves the dispatcher's cache entry in place
jit_invalidate_code_keep_dispatch(J, c) ==
  With(J, LAMBDA K :
    Then(jit_free_compile_unit(K, c, K.codes[c].root_unit, <<>>), LAMBDA K1 :
      With(jit_restore_edges([K1 EXCEPT !.codes[c].root_unit = <<>>], c),
           LAMBDA K3 :
        With(UnlinkIn(K3, c, K3.codes[c].in_edges), LAMBDA K4 :
          UnlinkOut(K4, c, K4.codes[c].out_edges)))))

jit_invalidate_code(J, c) ==
  With(J, LAMBDA K :
    Then(jit_free_compile_unit(K, c, K.codes[c].root_unit, <<>>), LAMBDA K1 :
      With(guest_invalidate_code([K1 EXCEPT !.codes[c].root_unit = <<>>],
                                 K1.codes[c].guest_addr), LAMBDA K2 :
        With(jit_restore_edges(K2, c), LAMBDA K3 :
          With(UnlinkIn(K3, c, K3.codes[c].in_edges), LAMBDA K4 :
            UnlinkOut(K4, c, K4.codes[c].out_edges))))))

\* free_code that unlinks the code from the forward map only
jit_free_code_forward_only(J, c) ==
  Then(jit_invalidate_code(J, c), LAMBDA K :
    [K EXCEPT !.code = IF c \in @ THEN @ \ {c} ELSE @,
              !.codes = Restrict(@, DOMAIN @ \ {c})])

jit_free_code(J, c) ==
  Then(jit_invalidate_code(J, c), LAMBDA K :
    [K EXCEPT !.code = IF c \in @ THEN @ \ {c} ELSE @,
              !.code_reverse = IF c \in @ THEN @ \ {c} ELSE @,
              !.codes = Restrict(@, DOMAIN @ \ {c})])

\* calloc(1, sizeof(struct jit_code)), as object c
jit_alloc_code(J, c) ==
  [J EXCEPT !.codes = Extend(@, c,
     [guest_addr |-> 0, fastmem |-> 0, root_unit |-> <<>>,
      host_addr |-> NULL, host_size |-> 0,
      in_edges |-> <<>>, out_edges |-> <<>>])]

jit_free_meta(J, guest_addr) ==
  With(J, LAMBDA K :
    IF ~list_empty(K.meta[guest_addr].compile_refs)
    THEN Abort(K, "code must be free'd before meta data")
    ELSE [K EXCEPT !.meta = Restrict(@, DOMAIN @ \ {guest_addr})])

jit_alloc_meta(J, addr) ==
  [J EXCEPT !.meta = Extend(@, addr,
     [guest_addr |-> addr, branch_addr |-> INVALID_ADDR,
      next_addr |-> INVALID_ADDR, visited |-> 0, compile_refs |-> <<>>])]

\* ------------------------------------------------------------- caches
RECURSIVE InvalidateEach(_, _)
InvalidateEach(J, list) ==
  IF list = <<>> THEN J
  ELSE Then(J, LAMBDA K :
         InvalidateEach(jit_invalidate_code(K, Head(list)), Tail(list)))

RECURSIVE FreeCodeEach(_, _)
FreeCodeEach(J, list) ==
  IF list = <<>> THEN J
  ELSE Then(J, LAMBDA K :
         FreeCodeEach(jit_free_code(K, Head(list)), Tail(list)))

RECURSIVE FreeMetaEach(_, _)
FreeMetaEach(J, list) ==
  IF list = <<>> THEN J
  ELSE Then(J, LAMBDA K :
         FreeMetaEach(jit_free_meta(K, Head(list)), Tail(list)))

\* the forward tree in code_map_cmp order, the meta tree in meta_map_cmp order
ForwardOrder(J) == InOrder(J.code, [c \in J.code |-> J.codes[c].guest_addr])
MetaOrder(J) == InOrder(DOMAIN J.meta, [a \in DOMAIN J.meta |-> a])

\* invalidate_cache that frees the codes instead of invalidating them
jit_invalidate_cache_free(J) ==
  With(J, LAMBDA K :
    Then(FreeCodeEach(K, ForwardOrder(K)), LAMBDA K1 :
      Then(FreeMetaEach(K1, MetaOrder(K1)), LAMBDA K2 :
        IF DOMAIN K2.meta # {} THEN Abort(K2, "rb_empty_tree(&jit->meta)")
        ELSE K2)))

\* invalidate_cache that frees the metas without invalidating the codes
jit_invalidate_cache_meta_only(J) ==
  With(J, LAMBDA K :
    Then(FreeMetaEach(K, MetaOrder(K)), LAMBDA K2 :
      IF DOMAIN K2.meta # {} THEN Abort(K2, "rb_empty_tree(&jit->meta)")
      ELSE K2))

jit_invalidate_cache(J) ==
  With(J, LAMBDA K :
    Then(InvalidateEach(K, ForwardOrder(K)), LAMBDA K1 :
      Then(FreeMetaEach(K1, MetaOrder(K1)), LAMBDA K2 :
        IF DOMAIN K2.meta # {} THEN Abort(K2, "rb_empty_tree(&jit->meta)")
        ELSE K2)))

\* free_cache that leaves the backend's buffer as it is
jit_free_cache_no_reset(J) ==
  With(J, LAMBDA K :
    Then(FreeCodeEach(K, ForwardOrder(K)), LAMBDA K1 :
      IF K1.code # {} THEN Abort(K1, "rb_empty_tree(&jit->code)")
      ELSE IF K1.code_reverse # {}
      THEN Abort(K1, "rb_empty_tree(&jit->code_reverse)")
      ELSE Then(FreeMetaEach(K1, MetaOrder(K1)), LAMBDA K2 :
             IF DOMAIN K2.meta # {} THEN Abort(K2, "rb_empty_tree(&jit->meta)")
             ELSE K2)))

jit_free_cache(J) ==
  With(J, LAMBDA K :
    Then(FreeCodeEach(K, ForwardOrder(K)), LAMBDA K1 :
      IF K1.code # {} THEN Abort(K1, "rb_empty_tree(&jit->code)")
      ELSE IF K1.code_reverse # {}
      THEN Abort(K1, "rb_empty_tree(&jit->code_reverse)")
      ELSE Then(FreeMetaEach(K1, MetaOrder(K1)), LAMBDA K2 :
             IF DOMAIN K2.meta # {} THEN Abort(K2, "rb_empty_tree(&jit->meta)")
             ELSE backend_reset(K2))))

\* finalize_code that inserts into the forward tree only
jit_finalize_code_forward_only(J, c) ==
  With(J, LAMBDA K :
    [guest_cache_code(K, K.codes[c].guest_addr, K.codes[c].host_addr)
       EXCEPT !.code = @ \cup {c}])

jit_finalize_code(J, c) ==
  With(J, LAMBDA K :
    IF ~(list_empty(K.codes[c].in_edges) /\ list_empty(K.codes[c].out_edges))
    THEN Abort(K, "code shouldn't have any existing edges")
    ELSE IF c \in K.code \/ c \in K.code_reverse
    THEN Abort(K, "code was already inserted in lookup tables")
    ELSE [guest_cache_code(K, K.codes[c].guest_addr, K.codes[c].host_addr)
            EXCEPT !.code = @ \cup {c}, !.code_reverse = @ \cup {c}])

\* ------------------------------------------------------------- analysis
\* frontend->analyze_code as the coordinator sees it: what the guest memory
\* holds at the meta's address decides success and the two successors
analyze_code(mem, guest_addr) == mem[guest_addr]

\* the new meta after analyze_code succeeded on it
AnalyzedMeta(J, mem, guest_addr) ==
  Call([jit_alloc_meta(J, guest_addr) EXCEPT
          !.meta[guest_addr].branch_addr = analyze_code(mem, guest_addr).branch_addr,
          !.meta[guest_addr].next_addr = analyze_code(mem, guest_addr).next_addr],
       <<"analyze_code", guest_addr, 1>>)

\* the walk without the visit-token test; it ends where the stack would
RECURSIVE jit_analyze_code_r_norejoin(_, _, _, _, _)
jit_analyze_code_r_norejoin(J, c, mem, guest_addr, path) ==
  With(J, LAMBDA K :
    IF guest_addr = INVALID_ADDR \/ K.fault # "none" \/ Len(path) > NumAddrs
    THEN [J |-> K, unit |-> <<>>]
    ELSE IF ~jit_lookup_meta(K, guest_addr) /\ ~analyze_code(mem, guest_addr).ok
    THEN [J |-> jit_free_meta(Call(jit_alloc_meta(K, guest_addr),
                                   <<"analyze_code", guest_addr, 0>>),
                              guest_addr),
          unit |-> <<>>]
    ELSE With(IF jit_lookup_meta(K, guest_addr) THEN K
              ELSE AnalyzedMeta(K, mem, guest_addr), LAMBDA K1 :
      With([K1 EXCEPT !.meta[guest_addr].visited = K1.visit_token,
                      !.meta[guest_addr].compile_refs =
                         list_add(@, UnitRef(c, path))], LAMBDA K2 :
        With(jit_analyze_code_r_norejoin(K2, c, mem,
                                         K2.meta[guest_addr].branch_addr,
                                         Append(path, "branch")), LAMBDA b :
          With(jit_analyze_code_r_norejoin(b.J, c, mem,
                                           b.J.meta[guest_addr].next_addr,
                                           Append(path, "next")), LAMBDA n :
            [J |-> n.J,
             unit |-> <<[meta |-> guest_addr, branch |-> b.unit,
                         next |-> n.unit]>>])))))

\* the walk that leaves the meta of a failed analysis in the cache
RECURSIVE jit_analyze_code_r_keep_meta(_, _, _, _, _)
jit_analyze_code_r_keep_meta(J, c, mem, guest_addr, path) ==
  With(J, LAMBDA K :
    IF guest_addr = INVALID_ADDR \/ K.fault # "none"
    THEN [J |-> K, unit |-> <<>>]
    ELSE IF jit_lookup_meta(K, guest_addr)
            /\ K.meta[guest_addr].visited = K.visit_token
    THEN [J |-> K, unit |-> <<>>]
    ELSE IF ~jit_lookup_meta(K, guest_addr) /\ ~analyze_code(mem, guest_addr).ok
    THEN [J |-> Call(jit_alloc_meta(K, guest_addr),
                     <<"analyze_code", guest_addr, 0>>),
          unit |-> <<>>]
    ELSE With(IF jit_lookup_meta(K, guest_addr) THEN K
              ELSE AnalyzedMeta(K, mem, guest_addr), LAMBDA K1 :
      With([K1 EXCEPT !.meta[guest_addr].visited = K1.visit_token,
                      !.meta[guest_addr].compile_refs =
                         list_add(@, UnitRef(c, path))], LAMBDA K2 :
        With(jit_analyze_code_r_keep_meta(K2, c, mem, K2.meta[guest_addr].branch_addr,
                                Append(path, "branch")), LAMBDA b :
          With(jit_analyze_code_r_keep_meta(b.J, c, mem, b.J.meta[guest_addr].next_addr,
                                  Append(path, "next")), LAMBDA n :
            [J |-> n.J,
             unit |-> <<[meta |-> guest_addr, branch |-> b.unit,
                         next |-> n.unit]>>])))))

\* the walk that analyses a block again when its meta is already cached
RECURSIVE jit_analyze_code_r_reanalyze(_, _, _, _, _)
jit_analyze_code_r_reanalyze(J, c, mem, guest_addr, path) ==
  With(J, LAMBDA K :
    IF guest_addr = INVALID_ADDR \/ K.fault # "none"
    THEN [J |-> K, unit |-> <<>>]
    ELSE IF jit_lookup_meta(K, guest_addr)
            /\ K.meta[guest_addr].visited = K.visit_token
    THEN [J |-> K, unit |-> <<>>]
    ELSE IF ~jit_lookup_meta(K, guest_addr) /\ ~analyze_code(mem, guest_addr).ok
    THEN [J |-> jit_free_meta(Call(jit_alloc_meta(K, guest_addr),
                                   <<"analyze_code", guest_addr, 0>>),
                              guest_addr),
          unit |-> <<>>]
    ELSE With(IF jit_lookup_meta(K, guest_addr)
              THEN Call([K EXCEPT
                           !.meta[guest_addr].branch_addr =
                              analyze_code(mem, guest_addr).branch_addr,
                           !.meta[guest_addr].next_addr =
                              analyze_code(mem, guest_addr).next_addr],
                        <<"analyze_code", guest_addr, 1>>)
              ELSE AnalyzedMeta(K, mem, guest_addr), LAMBDA K1 :
      With([K1 EXCEPT !.meta[guest_addr].visited = K1.visit_token,
                      !.meta[guest_addr].compile_refs =
                         list_add(@, UnitRef(c, path))], LAMBDA K2 :
        With(jit_analyze_code_r_reanalyze(K2, c, mem, K2.meta[guest_addr].branch_addr,
                                Append(path, "branch")), LAMBDA b :
          With(jit_analyze_code_r_reanalyze(b.J, c, mem, b.J.meta[guest_addr].next_addr,
                                  Append(path, "next")), LAMBDA n :
            [J |-> n.J,
             unit |-> <<[meta |-> guest_addr, branch |-> b.unit,
                         next |-> n.unit]>>])))))

\* the walk that takes the fall-through path before the branch path
RECURSIVE jit_analyze_code_r_next_first(_, _, _, _, _)
jit_analyze_code_r_next_first(J, c, mem, guest_addr, path) ==
  With(J, LAMBDA K :
    IF guest_addr = INVALID_ADDR \/ K.fault # "none"
    THEN [J |-> K, unit |-> <<>>]
    ELSE IF jit_lookup_meta(K, guest_addr)
            /\ K.meta[guest_addr].visited = K.visit_token
    THEN [J |-> K, unit |-> <<>>]
    ELSE IF ~jit_lookup_meta(K, guest_addr) /\ ~analyze_code(mem, guest_addr).ok
    THEN [J |-> jit_free_meta(Call(jit_alloc_meta(K, guest_addr),
                                   <<"analyze_code", guest_addr, 0>>),
                              guest_addr),
          unit |-> <<>>]
    ELSE With(IF jit_lookup_meta(K, guest_addr) THEN K
              ELSE AnalyzedMeta(K, mem, guest_addr), LAMBDA K1 :
      With([K1 EXCEPT !.meta[guest_addr].visited = K1.visit_token,
                      !.meta[guest_addr].compile_refs =
                         list_add(@, UnitRef(c, path))], LAMBDA K2 :
        With(jit_analyze_code_r_next_first(K2, c, mem,
                                           K2.meta[guest_addr].next_addr,
                                           Append(path, "next")), LAMBDA n :
          With(jit_analyze_code_r_next_first(n.J, c, mem,
                                             n.J.meta[guest_addr].branch_addr,
                                             Append(path, "branch")), LAMBDA b :
            [J |-> b.J,
             unit |-> <<[meta |-> guest_addr, branch |-> b.unit,
                         next |-> n.unit]>>])))))

\* result of the walk: the coordinator state and the optional unit
RECURSIVE jit_analyze_code_r(_, _, _, _, _)
jit_analyze_code_r(J, c, mem, guest_addr, path) ==
  With(J, LAMBDA K :
    IF guest_addr = INVALID_ADDR \/ K.fault # "none"
    THEN [J |-> K, unit |-> <<>>]
    ELSE IF jit_lookup_meta(K, guest_addr)
            /\ K.meta[guest_addr].visited = K.visit_token
    THEN [J |-> K, unit |-> <<>>]
    ELSE IF ~jit_lookup_meta(K, guest_addr) /\ ~analyze_code(mem, guest_addr).ok
    THEN [J |-> jit_free_meta(Call(jit_alloc_meta(K, guest_addr),
                                   <<"analyze_code", guest_addr, 0>>),
                              guest_addr),
          unit |-> <<>>]
    ELSE With(IF jit_lookup_meta(K, guest_addr) THEN K
              ELSE AnalyzedMeta(K, mem, guest_addr), LAMBDA K1 :
      With([K1 EXCEPT !.meta[guest_addr].visited = K1.visit_token,
                      !.meta[guest_addr].compile_refs =
                         list_add(@, UnitRef(c, path))], LAMBDA K2 :
        With(jit_analyze_code_r(K2, c, mem, K2.meta[guest_addr].branch_addr,
                                Append(path, "branch")), LAMBDA b :
          With(jit_analyze_code_r(b.J, c, mem, b.J.meta[guest_addr].next_addr,
                                  Append(path, "next")), LAMBDA n :
            [J |-> n.J,
             unit |-> <<[meta |-> guest_addr, branch |-> b.unit,
                         next |-> n.unit]>>])))))

jit_analyze_code(J, c, mem) ==
  With([J EXCEPT !.visit_token = @ + 1], LAMBDA K :
    With(jit_analyze_code_r(K, c, mem, K.codes[c].guest_addr, <<>>), LAMBDA r :
      IF r.J.fault # "none" THEN r.J
      ELSE IF r.unit = <<>> THEN Abort(r.J, "CHECK_NOTNULL(code->root_unit)")
      ELSE [r.J EXCEPT !.codes[c].root_unit = r.unit]))

\* ------------------------------------------------------------- compile
\* frontend->translate_code and the six passes, in the order they are called
\* the pipeline with dead code elimination ahead of the other passes
RunPipeline_dce_first(J, c) ==
  With(J, LAMBDA K :
    [K EXCEPT !.calls = @ \o << <<"translate_code", K.codes[c].guest_addr,
                                 K.codes[c].fastmem>>,
                               <<"dce_run", 0, 0>>, <<"cfa_run", 0, 0>>,
                               <<"lse_run", 0, 0>>, <<"cprop_run", 0, 0>>,
                               <<"esimp_run", 0, 0>>, <<"ra_run", 0, 0>> >>])

RunPipeline(J, c) ==
  With(J, LAMBDA K :
    [K EXCEPT !.calls = @ \o << <<"translate_code", K.codes[c].guest_addr,
                                 K.codes[c].fastmem>>,
                               <<"cfa_run", 0, 0>>, <<"lse_run", 0, 0>>,
                               <<"cprop_run", 0, 0>>, <<"esimp_run", 0, 0>>,
                               <<"dce_run", 0, 0>>, <<"ra_run", 0, 0>> >>])

\* compile_code that does not look at the code it replaces
compile_fastmem_forget(J, release, guest_addr) == IF release THEN 1 ELSE 0

\* the fastmem flag of the code compile_code builds
compile_fastmem(J, release, guest_addr) ==
  With(jit_lookup_code(J, guest_addr), LAMBDA existing :
    IF existing # NULL THEN J.codes[existing].fastmem
    ELSE IF release THEN 1 ELSE 0)

\* the new code entry: allocated, then its address and flag set
NewCode(J, guest_addr, fastmem) ==
  With(J, LAMBDA K :
    With(NewId(K.codes), LAMBDA c :
      [J |-> [jit_alloc_code(K, c) EXCEPT !.codes[c].guest_addr = guest_addr,
                                          !.codes[c].fastmem = fastmem],
       code |-> c]))

\* compile_code whose overflow path frees only the code under construction
jit_compile_code_keep_cache(J, release, guest_addr, mem, size) ==
  With(J, LAMBDA K :
    With(jit_lookup_code(K, guest_addr), LAMBDA existing :
      Then(IF existing # NULL THEN jit_free_code(K, existing) ELSE K, LAMBDA K1 :
        With(NewCode(K1, guest_addr, compile_fastmem(K, release, guest_addr)),
             LAMBDA new :
          Then(jit_analyze_code(new.J, new.code, mem), LAMBDA K2 :
            With(backend_assemble_code(RunPipeline(K2, new.code), new.code, size),
                 LAMBDA K3 :
              IF backend_can_assemble(K2, size)
              THEN jit_finalize_code(K3, new.code)
              ELSE jit_free_code(K3, new.code)))))))

\* compile_code that appends without freeing the code already at the address
jit_compile_code_append(J, release, guest_addr, mem, size) ==
  With(J, LAMBDA K :
    With(NewCode(K, guest_addr, compile_fastmem(K, release, guest_addr)),
         LAMBDA new :
      Then(jit_analyze_code(new.J, new.code, mem), LAMBDA K2 :
        With(backend_assemble_code(RunPipeline(K2, new.code), new.code, size),
             LAMBDA K3 :
          IF backend_can_assemble(K2, size)
          THEN jit_finalize_code(K3, new.code)
          ELSE jit_free_cache(jit_free_code(K3, new.code))))))

jit_compile_code(J, release, guest_addr, mem, size) ==
  With(J, LAMBDA K :
    With(jit_lookup_code(K, guest_addr), LAMBDA existing :
      Then(IF existing # NULL THEN jit_free_code(K, existing) ELSE K, LAMBDA K1 :
        With(NewCode(K1, guest_addr, compile_fastmem(K, release, guest_addr)),
             LAMBDA new :
          Then(jit_analyze_code(new.J, new.code, mem), LAMBDA K2 :
            With(backend_assemble_code(RunPipeline(K2, new.code), new.code, size),
                 LAMBDA K3 :
              IF backend_can_assemble(K2, size)
              THEN jit_finalize_code(K3, new.code)
              ELSE jit_free_cache(jit_free_code(K3, new.code))))))))

\* ------------------------------------------------------------- add_edge
\* jit_is_stale(jit, src) reads src->guest_addr before src is tested: with
\* src == NULL that read is undefined.  ub names what the build makes of it:
\* "segv" (the read traps), or the read yields garbage and the comparison
\* comes out "stale" or "fresh".
UBOutcomes == {"segv", "stale", "fresh"}

\* an edge linked on its source's side only
LinkEdge_src_only(J, src, dst, branch) ==
  With(J, LAMBDA K :
    With(NewId(K.edges), LAMBDA e :
      [K EXCEPT !.edges = Extend(@, e, [src |-> src, dst |-> dst,
                                        branch |-> branch, patched |-> 0]),
                !.codes = [@ EXCEPT ![src].out_edges = list_add(@, e)]]))

\* calloc(1, sizeof(struct jit_edge)) with src, dst and branch set, linked
\* at the tail of src's outgoing and dst's incoming list
LinkEdge(J, src, dst, branch) ==
  With(J, LAMBDA K :
    With(NewId(K.edges), LAMBDA e :
      [K EXCEPT !.edges = Extend(@, e, [src |-> src, dst |-> dst,
                                        branch |-> branch, patched |-> 0]),
                !.codes = [@ EXCEPT ![src].out_edges = list_add(@, e)],
                !.codes = [@ EXCEPT ![dst].in_edges = list_add(@, e)]]))

jit_add_edge(J, branch, addr, ub) ==
  With(J, LAMBDA K :
    With(jit_lookup_code_reverse(K, branch), LAMBDA src :
      With(jit_lookup_code(K, addr), LAMBDA dst :
        IF src = NULL
        THEN (IF ub = "segv"
              THEN Abort(K, "SIGSEGV: src->guest_addr, src == NULL")
              ELSE IF ub = "stale" \/ dst = NULL THEN K
              ELSE Abort(K, "SIGSEGV: src->out_edges, src == NULL"))
        ELSE IF jit_is_stale(K, src) \/ dst = NULL THEN K
        ELSE jit_patch_edges(LinkEdge(K, src, dst, branch), src))))

\* ------------------------------------------------------------- faults
\* handler that finishes the job at once and frees the faulting code
jit_handle_exception_free(J, pc, handled) ==
  With(J, LAMBDA K :
    With(jit_lookup_code_reverse(K, pc), LAMBDA c :
      IF c = NULL THEN [J |-> K, ret |-> 0]
      ELSE With(Call(K, <<"handle_exception", NULL, IF handled THEN 1 ELSE 0>>),
                LAMBDA K1 :
             IF ~handled THEN [J |-> K1, ret |-> 0]
             ELSE [J |-> jit_free_code([K1 EXCEPT !.codes[c].fastmem = 0], c),
                   ret |-> 1])))

\* handler that clears the fastmem flag before it asks the backend
jit_handle_exception_eager(J, pc, handled) ==
  With(J, LAMBDA K :
    With(jit_lookup_code_reverse(K, pc), LAMBDA c :
      IF c = NULL THEN [J |-> K, ret |-> 0]
      ELSE With(Call([K EXCEPT !.codes[c].fastmem = 0],
                     <<"handle_exception", NULL, IF handled THEN 1 ELSE 0>>),
                LAMBDA K1 :
             IF ~handled THEN [J |-> K1, ret |-> 0]
             ELSE [J |-> jit_invalidate_code(K1, c), ret |-> 1])))

\* handler that invalidates but leaves the fastmem flag as it was
jit_handle_exception_keep(J, pc, handled) ==
  With(J, LAMBDA K :
    With(jit_lookup_code_reverse(K, pc), LAMBDA c :
      IF c = NULL THEN [J |-> K, ret |-> 0]
      ELSE With(Call(K, <<"handle_exception", NULL, IF handled THEN 1 ELSE 0>>),
                LAMBDA K1 :
             IF ~handled THEN [J |-> K1, ret |-> 0]
             ELSE [J |-> jit_invalidate_code(K1, c), ret |-> 1])))

\* handled: what backend->handle_exception answers for this fault
jit_handle_exception(J, pc, handled) ==
  With(J, LAMBDA K :
    With(jit_lookup_code_reverse(K, pc), LAMBDA c :
      IF c = NULL THEN [J |-> K, ret |-> 0]
      ELSE With(Call(K, <<"handle_exception", NULL, IF handled THEN 1 ELSE 0>>),
                LAMBDA K1 :
             IF ~handled THEN [J |-> K1, ret |-> 0]
             ELSE [J |-> jit_invalidate_code([K1 EXCEPT !.codes[c].fastmem = 0], c),
                   ret |-> 1])))

\* ------------------------------------------------------------- frontends
\* Guest memory as the frontends read it: the decoded instructions from a
\* base address on, one per slot; elsewhere no opcode decodes. A uint32_t
\* is written as the int32_t with the same bits, as INVALID_ADDR is: -4 is
\* 0xfffffffc and -1946091520 is 0x8c010000.

\* a + k in uint32_t arithmetic, for an int k
U32Add(a, k) ==
  IF k >= 0
  THEN (IF a > 2147483647 - k
        THEN (a - 2147483647 - 1) + (k - 2147483647 - 1)
        ELSE a + k)
  ELSE (IF a < (-2147483647 - 1) - k
        THEN (a + 2147483647 + 1) + (k + 2147483647 + 1)
        ELSE a + k)

\* what sh4_disasm makes of the opcodes met: op, cycles, flags and the raw
\* displacement field
Sh4Instrs ==
  {[op |-> "INVALID", cycles |-> 0, flags |-> {}, disp |-> 0]}
  \cup {[op |-> "NOP", cycles |-> n, flags |-> {}, disp |-> 0] :
          n \in 1..MaxCycles}
  \cup {[op |-> "LDC_SR", cycles |-> MaxCycles, flags |-> {"SET_SR"},
         disp |-> 0]}
  \cup {[op |-> "BT", cycles |-> 1, flags |-> {"BRANCH"}, disp |-> d] :
          d \in {2, 255}}
  \cup {[op |-> "BF", cycles |-> 1, flags |-> {"BRANCH"}, disp |-> 128]}
  \cup {[op |-> o, cycles |-> 1, flags |-> {"BRANCH", "DELAYED"},
         disp |-> 255] : o \in {"BTS", "BFS"}}
  \cup {[op |-> "BRA", cycles |-> MaxCycles, flags |-> {"BRANCH", "DELAYED"},
         disp |-> d] : d \in {2, 4095}}
  \cup {[op |-> "BSR", cycles |-> MaxCycles, flags |-> {"BRANCH", "DELAYED"},
         disp |-> 2048]}

\* what armv3_disasm makes of the words met: op, flags, destination register
Armv3Instrs ==
  {[op |-> "INVALID", flags |-> {}, rd |-> 0],
   [op |-> "B", flags |-> {"BRANCH"}, rd |-> 0],
   [op |-> "SWI", flags |-> {"SWI"}, rd |-> 0]}
  \cup {[op |-> "MOV", flags |-> {"DATA"}, rd |-> r] : r \in {0, 15}}

\* guest->r16 followed by sh4_disasm: the instruction at addr
r16(mem, addr) ==
  IF U32Add(addr, -mem.base) >= 0
     /\ U32Add(addr, -mem.base) \div 2 + 1 \in DOMAIN mem.instrs
  THEN mem.instrs[U32Add(addr, -mem.base) \div 2 + 1]
  ELSE [op |-> "INVALID", cycles |-> 0, flags |-> {}, disp |-> 0]

\* guest->r32 followed by armv3_disasm: the instruction at addr
r32(mem, addr) ==
  IF U32Add(addr, -mem.base) >= 0
     /\ U32Add(addr, -mem.base) \div 4 + 1 \in DOMAIN mem.instrs
  THEN mem.instrs[U32Add(addr, -mem.base) \div 4 + 1]
  ELSE [op |-> "INVALID", flags |-> {}, rd |-> 0]

sh4_disasm(instr) == instr.op # "INVALID"

\* (int8_t)disp and the 12-bit ((disp & 0xfff) << 20) >> 20
SignExtend(v, bits) == IF v >= 2 ^ (bits - 1) THEN v - 2 ^ bits ELSE v

\* the block meta as jit_alloc_meta hands it to analyze_code
BlockMeta(guest_addr) ==
  [guest_addr |-> guest_addr, branch_type |-> "FALL_THROUGH",
   branch_addr |-> INVALID_ADDR, next_addr |-> INVALID_ADDR,
   num_cycles |-> 0, num_instrs |-> 0, size |-> 0]

\* num_cycles += cycles; num_instrs++; size += bytes
Counted(m, cycles, bytes) ==
  [m EXCEPT !.num_cycles = @ + cycles, !.num_instrs = @ + 1,
            !.size = @ + bytes]

\* the delay slot, with its two checks, left out of the three counts
sh4_delay_slot_uncounted(mem, bm) ==
  With(bm, LAMBDA m :
    With(r16(mem, U32Add(m.guest_addr, m.size)), LAMBDA delay_instr :
      IF ~sh4_disasm(delay_instr)
      THEN [fault |-> "CHECK(sh4_disasm(&delay_instr))", meta |-> m]
      ELSE IF "DELAYED" \in delay_instr.flags
      THEN [fault |-> "CHECK(!(delay_instr.flags & SH4_FLAG_DELAYED))",
            meta |-> m]
      ELSE [fault |-> "none", meta |-> m]))

\* the delay slot of a delayed instruction: decoded, checked and counted
sh4_delay_slot(mem, bm) ==
  With(bm, LAMBDA m :
    With(r16(mem, U32Add(m.guest_addr, m.size)), LAMBDA delay_instr :
      IF ~sh4_disasm(delay_instr)
      THEN [fault |-> "CHECK(sh4_disasm(&delay_instr))", meta |-> m]
      ELSE IF "DELAYED" \in delay_instr.flags
      THEN [fault |-> "CHECK(!(delay_instr.flags & SH4_FLAG_DELAYED))",
            meta |-> m]
      ELSE [fault |-> "none", meta |-> Counted(m, delay_instr.cycles, 2)]))

\* the branch information with the displacement taken as unsigned
sh4_branch_unsigned(bm, instr, addr) ==
  IF instr.op \in {"BF", "BFS", "BT", "BTS"}
  THEN [bm EXCEPT
          !.branch_type = IF instr.op \in {"BF", "BFS"} THEN "STATIC_FALSE"
                          ELSE "STATIC_TRUE",
          !.branch_addr = U32Add(U32Add(addr, 4), instr.disp * 2),
          !.next_addr = U32Add(addr, IF instr.op \in {"BF", "BT"} THEN 2
                                     ELSE 4)]
  ELSE IF instr.op \in {"BRA", "BSR"}
  THEN [bm EXCEPT
          !.branch_type = "STATIC",
          !.branch_addr = U32Add(U32Add(addr, 4), (instr.disp % 4096) * 2)]
  ELSE [bm EXCEPT !.branch_type = "DYNAMIC"]

\* the branch information saved off for the branch instr at addr
sh4_branch(bm, instr, addr) ==
  IF instr.op \in {"BF", "BFS", "BT", "BTS"}
  THEN [bm EXCEPT
          !.branch_type = IF instr.op \in {"BF", "BFS"} THEN "STATIC_FALSE"
                          ELSE "STATIC_TRUE",
          !.branch_addr = U32Add(U32Add(addr, 4),
                                 SignExtend(instr.disp, 8) * 2),
          !.next_addr = U32Add(addr, IF instr.op \in {"BF", "BT"} THEN 2
                                     ELSE 4)]
  ELSE IF instr.op \in {"BRA", "BSR"}
  THEN [bm EXCEPT
          !.branch_type = "STATIC",
          !.branch_addr = U32Add(U32Add(addr, 4),
                                 SignExtend(instr.disp % 4096, 12) * 2)]
  ELSE [bm EXCEPT !.branch_type = "DYNAMIC"]

\* the while (1) loop of sh4_frontend_analyze_code
RECURSIVE sh4_analyze_loop(_, _)
sh4_analyze_loop(mem, bm) ==
  With(bm, LAMBDA m :
    With(r16(mem, U32Add(m.guest_addr, m.size)), LAMBDA instr :
      IF ~sh4_disasm(instr) THEN [ret |-> 0, fault |-> "none", meta |-> m]
      ELSE With(Counted(m, instr.cycles, 2), LAMBDA m1 :
        With(IF "DELAYED" \in instr.flags THEN sh4_delay_slot(mem, m1)
             ELSE [fault |-> "none", meta |-> m1], LAMBDA d :
          IF d.fault # "none"
          THEN [ret |-> 0, fault |-> d.fault, meta |-> d.meta]
          ELSE IF "BRANCH" \in instr.flags
          THEN (IF instr.op \in {"BF", "BFS", "BT", "BTS", "BRA", "BRAF",
                                 "BSR", "BSRF", "JMP", "JSR", "RTS", "RTE",
                                 "TRAPA"}
                THEN [ret |-> 1, fault |-> "none",
                      meta |-> sh4_branch(d.meta, instr,
                                          U32Add(m.guest_addr, m.size))]
                ELSE [ret |-> 0, fault |-> "Unexpected branch op",
                      meta |-> d.meta])
          ELSE IF instr.flags \cap {"SET_FPSCR", "SET_SR"} # {}
          THEN [ret |-> 1, fault |-> "none",
                meta |-> [d.meta EXCEPT !.branch_type = "FALL_THROUGH"]]
          ELSE sh4_analyze_loop(mem, d.meta)))))

sh4_frontend_analyze_code(mem, bm) ==
  sh4_analyze_loop(mem, [bm EXCEPT !.num_cycles = 0, !.num_instrs = 0,
                                     !.size = 0])

\* the condition under which the armv3 block stops: pc is changed
armv3_changes_pc(i) ==
  \/ "BRANCH" \in i.flags
  \/ "DATA" \in i.flags /\ i.rd = 15
  \/ "PSR" \in i.flags
  \/ "XFR" \in i.flags /\ i.rd = 15
  \/ "BLK" \in i.flags /\ i.rd = 15
  \/ "SWI" \in i.flags

\* the while (1) loop of armv3_frontend_analyze_code
RECURSIVE armv3_analyze_loop(_, _)
armv3_analyze_loop(mem, bm) ==
  With(bm, LAMBDA m :
    With(r32(mem, U32Add(m.guest_addr, m.size)), LAMBDA i :
      IF i.op = "INVALID" THEN [ret |-> 0, fault |-> "none", meta |-> m]
      ELSE With(Counted(m, 12, 4), LAMBDA m1 :
        IF armv3_changes_pc(i)
        THEN [ret |-> 1, fault |-> "none", meta |-> m1]
        ELSE armv3_analyze_loop(mem, m1))))

\* the armv3 analysis that records the address after the block as next_addr
armv3_frontend_analyze_code_next(mem, bm) ==
  With(armv3_analyze_loop(mem, [bm EXCEPT !.num_cycles = 0, !.num_instrs = 0,
                                          !.size = 0]), LAMBDA r :
    [r EXCEPT !.meta.next_addr = U32Add(r.meta.guest_addr, r.meta.size)])

armv3_frontend_analyze_code(mem, bm) ==
  armv3_analyze_loop(mem, [bm EXCEPT !.num_cycles = 0, !.num_instrs = 0,
                                       !.size = 0])

\* the guest memories and block addresses given to the two frontends
Sh4Bases == {0, -1946091520, -4, 2147483644}
Sh4Mems ==
  {[base |-> b, instrs |-> i] :
     b \in Sh4Bases, i \in UNION {[1..n -> Sh4Instrs] : n \in 1..MaxInstrs}}
Armv3Mems ==
  {[base |-> b, instrs |-> i] :
     b \in {0, -8},
     i \in UNION {[1..n -> Armv3Instrs] : n \in 1..MaxInstrs}}

\* one analyze_code call: the frontend, the memory, the meta, and the value
\* returned (-1 while the call has not returned)
Analysis(isa, mem, m, ret) ==
  [isa |-> isa, mem |-> mem, meta |-> m, ret |-> ret]

\* ------------------------------------------------------------- ir
\* The IR of one compilation: the block list in textual order, each block
\* with its label and instructions, the block under the insert point, and
\* the CFG edges in the order ir_add_edge was called.

\* an ir_value: a block, a host pointer or an immediate
Value(type, n, fn) == [type |-> type, n |-> n, fn |-> fn]

\* an ir_instr: its op, the context field it reads or writes, its argument
Instr(op, ctx, arg) == [op |-> op, ctx |-> ctx, arg |-> arg]

NoValue == Value("NONE", 0, "")

EmptyIr ==
  [blocks |-> <<[label |-> INVALID_ADDR, unit |-> INVALID_ADDR,
                 instrs |-> <<>>]>>,
   cur |-> 1, edges |-> <<>>]

\* ir_append_instr at the insert point
Emit(I, instr) == [I EXCEPT !.blocks[I.cur].instrs = Append(@, instr)]

ir_append_block(I) ==
  [I EXCEPT !.blocks = Append(@, [label |-> INVALID_ADDR,
                                  unit |-> INVALID_ADDR, instrs |-> <<>>])]

ir_add_edge(I, src, dst) == [I EXCEPT !.edges = Append(@, <<src, dst>>)]

\* the block labelled with addr, appended when there is none yet
sh4_demand_block(I, addr) ==
  With(I, LAMBDA I0 :
    IF \E b \in DOMAIN I0.blocks : I0.blocks[b].label = addr
    THEN [I |-> I0,
          blk |-> CHOOSE b \in DOMAIN I0.blocks :
                    /\ I0.blocks[b].label = addr
                    /\ \A b2 \in 1..(b - 1) : I0.blocks[b2].label # addr]
    ELSE [I |-> [ir_append_block(I0) EXCEPT
                   !.blocks[Len(I0.blocks) + 1].label = addr],
          blk |-> Len(I0.blocks) + 1])

\* a new block that stores addr to pc and leaves through static dispatch;
\* the insert point is left where it was
sh4_static_branch_thunk(I, addr) ==
  With(I, LAMBDA I0 :
    With(Len(I0.blocks) + 1, LAMBDA thunk_block :
      [I |-> [Emit(Emit([ir_append_block(I0) EXCEPT !.cur = thunk_block],
                        Instr("STORE_CONTEXT", "pc", Value("I32", addr, ""))),
                   Instr("CALL_NORETURN", "",
                         Value("PTR", 0, "sh4_dispatch_static")))
                EXCEPT !.cur = I0.cur],
       blk |-> thunk_block]))

\* the terminator of a unit's block, by the branch type of its meta
sh4_emit_branch(I, m, unit) ==
  With(I, LAMBDA I0 :
    IF m.branch_type = "FALL_THROUGH"
    THEN Emit(Emit(I0, Instr("STORE_CONTEXT", "pc",
                             Value("I32", m.guest_addr + m.size, ""))),
              Instr("BRANCH", "", Value("PTR", 0, "sh4_dispatch_dynamic")))
    ELSE IF m.branch_type = "STATIC"
    THEN (IF unit.branch # <<>>
          THEN With(sh4_demand_block(I0, m.branch_addr), LAMBDA d :
                 Emit(d.I, Instr("BRANCH", "", Value("BLOCK", d.blk, ""))))
          ELSE Emit(Emit(I0, Instr("STORE_CONTEXT", "pc",
                                   Value("I32", m.branch_addr, ""))),
                    Instr("CALL_NORETURN", "",
                          Value("PTR", 0, "sh4_dispatch_static"))))
    ELSE IF m.branch_type \in {"STATIC_TRUE", "STATIC_FALSE"}
    THEN With(IF unit.branch # <<>> THEN sh4_demand_block(I0, m.branch_addr)
              ELSE sh4_static_branch_thunk(I0, m.branch_addr), LAMBDA d :
           Emit(d.I, Instr(IF m.branch_type = "STATIC_TRUE"
                           THEN "BRANCH_TRUE" ELSE "BRANCH_FALSE",
                           "branch_cond", Value("BLOCK", d.blk, ""))))
    ELSE Emit(Emit(I0, Instr("STORE_CONTEXT", "pc",
                             Value("VALUE", 0, "branch_dest"))),
              Instr("BRANCH", "", Value("PTR", 0, "sh4_dispatch_dynamic"))))

\* the cycle and instruction counts and the guest instructions of a unit,
\* emitted at the insert point
sh4_emit_unit(I, m) ==
  With(I, LAMBDA I0 :
    Emit(Emit(Emit([I0 EXCEPT !.blocks[I0.cur].unit = m.guest_addr],
                   Instr("SUB", "remaining_cycles",
                         Value("I32", m.num_cycles, ""))),
              Instr("ADD", "ran_instrs", Value("I64", m.num_instrs, ""))),
         Instr("GUEST_INSTRS", "", Value("I32", m.guest_addr, ""))))

\* the translation that emits the branch child ahead of the next child
RECURSIVE sh4_translate_r_branch_first(_, _, _)
sh4_translate_r_branch_first(I, metas, unit) ==
  With(sh4_emit_unit(I, metas[unit.meta]), LAMBDA I1 :
    With(IF unit.branch # <<>>
         THEN With(sh4_demand_block(I1, metas[unit.meta].branch_addr),
                   LAMBDA d :
                [sh4_translate_r_branch_first([d.I EXCEPT !.cur = d.blk],
                                              metas, unit.branch[1])
                   EXCEPT !.cur = I1.cur])
         ELSE I1, LAMBDA I2 :
      With(IF unit.next # <<>>
           THEN With(sh4_demand_block(I2, metas[unit.meta].next_addr),
                     LAMBDA d :
                  [sh4_translate_r_branch_first([d.I EXCEPT !.cur = d.blk],
                                                metas, unit.next[1])
                     EXCEPT !.cur = I2.cur])
           ELSE sh4_static_branch_thunk(I2, metas[unit.meta].next_addr).I,
           LAMBDA I3 :
        sh4_emit_branch(I3, metas[unit.meta], unit))))

RECURSIVE sh4_translate_r(_, _, _)
sh4_translate_r(I, metas, unit) ==
  With(sh4_emit_unit(I, metas[unit.meta]), LAMBDA I1 :
    With(IF unit.next # <<>>
         THEN With(sh4_demand_block(I1, metas[unit.meta].next_addr),
                   LAMBDA d :
                [sh4_translate_r([d.I EXCEPT !.cur = d.blk], metas,
                                 unit.next[1])
                   EXCEPT !.cur = I1.cur])
         ELSE sh4_static_branch_thunk(I1, metas[unit.meta].next_addr).I,
         LAMBDA I2 :
      With(IF unit.branch # <<>>
           THEN With(sh4_demand_block(I2, metas[unit.meta].branch_addr),
                     LAMBDA d :
                  [sh4_translate_r([d.I EXCEPT !.cur = d.blk], metas,
                                   unit.branch[1])
                     EXCEPT !.cur = I2.cur])
           ELSE I2, LAMBDA I3 :
        sh4_emit_branch(I3, metas[unit.meta], unit))))

\* the yield check and the interrupt check, each closing a block, then the
\* units from the root
sh4_translate(metas, root_unit) ==
  With(Emit(Emit(EmptyIr,
                 Instr("CMP_SLE", "remaining_cycles", Value("I32", 0, ""))),
            Instr("BRANCH_TRUE", "",
                  Value("PTR", 0, "sh4_dispatch_leave"))), LAMBDA I1 :
    With([ir_append_block(I1) EXCEPT !.cur = 2], LAMBDA I2 :
      With(Emit(Emit(I2, Instr("LOAD_CONTEXT", "pending_interrupts",
                               NoValue)),
                Instr("BRANCH_TRUE", "",
                      Value("PTR", 0, "sh4_dispatch_interrupt"))),
           LAMBDA I3 :
        sh4_translate_r([ir_append_block(I3) EXCEPT !.cur = 3], metas,
                        root_unit[1]))))

\* cfa_run that looks at block targets only
RECURSIVE cfa_instrs_target_only(_, _, _, _)
cfa_instrs_target_only(I, block, next_block, instrs) ==
  IF instrs = <<>> THEN I
  ELSE With(Head(instrs), LAMBDA instr :
    cfa_instrs_target_only(
       IF instr.op \in {"BRANCH", "BRANCH_TRUE", "BRANCH_FALSE"}
          /\ instr.arg.type = "BLOCK"
       THEN ir_add_edge(I, block, instr.arg.n) ELSE I,
       block, next_block, Tail(instrs)))

\* cfa_run for which an unconditional branch to a host pointer falls through
RECURSIVE cfa_instrs_ptr_falls(_, _, _, _)
cfa_instrs_ptr_falls(I, block, next_block, instrs) ==
  IF instrs = <<>> THEN I
  ELSE With(Head(instrs), LAMBDA instr :
    cfa_instrs_ptr_falls(
       IF instr.op \in {"BRANCH", "BRANCH_TRUE", "BRANCH_FALSE"}
       THEN With(IF instr.arg.type = "BLOCK"
                 THEN ir_add_edge(I, block, instr.arg.n) ELSE I, LAMBDA I1 :
              IF next_block # NULL
                 /\ (instr.op # "BRANCH" \/ instr.arg.type # "BLOCK")
              THEN ir_add_edge(I1, block, next_block)
              ELSE I1)
       ELSE I,
       block, next_block, Tail(instrs)))

\* the inner loop of cfa_run, over the instructions of one block
RECURSIVE cfa_instrs(_, _, _, _)
cfa_instrs(I, block, next_block, instrs) ==
  IF instrs = <<>> THEN I
  ELSE With(Head(instrs), LAMBDA instr :
    cfa_instrs(
       IF instr.op = "BRANCH"
       THEN (IF instr.arg.type = "BLOCK"
             THEN ir_add_edge(I, block, instr.arg.n) ELSE I)
       ELSE IF instr.op \in {"BRANCH_TRUE", "BRANCH_FALSE"}
       THEN With(IF instr.arg.type = "BLOCK"
                 THEN ir_add_edge(I, block, instr.arg.n) ELSE I, LAMBDA I1 :
              IF next_block # NULL THEN ir_add_edge(I1, block, next_block)
              ELSE I1)
       ELSE I,
       block, next_block, Tail(instrs)))

\* the outer loop of cfa_run, from block on
RECURSIVE cfa_blocks(_, _)
cfa_blocks(I, block) ==
  IF block > Len(I.blocks) THEN I
  ELSE cfa_blocks(cfa_instrs(I, block,
                             IF block < Len(I.blocks) THEN block + 1
                             ELSE NULL,
                             I.blocks[block].instrs),
                  block + 1)

cfa_run(I) == cfa_blocks(I, 1)

\* ------------------------------------------------------------- inputs
\* what analyze_code can report for the block at guest address a: failure, or
\* a branch target anywhere and a fall-through address past the block
Analyses(a) ==
  {[ok |-> FALSE, branch_addr |-> INVALID_ADDR, next_addr |-> INVALID_ADDR]}
  \cup {[ok |-> TRUE, branch_addr |-> b, next_addr |-> n] :
          b \in Addrs \cup {INVALID_ADDR},
          n \in {x \in Addrs : x > a} \cup {INVALID_ADDR}}

\* the guest memories a compilation can meet
Mems == {m \in [Addrs -> UNION {Analyses(a) : a \in Addrs}] :
           \A a \in Addrs : m[a] \in Analyses(a)}

\* analyze_code is not called for an address that has a meta, so what the
\* memory holds there cannot matter: one memory per choice elsewhere
MemsFor(J) ==
  {m \in Mems : \A a \in DOMAIN J.meta :
                  m[a] = [ok |-> FALSE, branch_addr |-> INVALID_ADDR,
                          next_addr |-> INVALID_ADDR]}

\* the guest addresses a translated block can start at
IrAddrs == 0..(IrNumAddrs - 1)

\* what the sh4 frontend can leave in the meta of the block at a: failure,
\* or one of the branch types it sets, a conditional branch always with
\* the address after it; nothing can be analyzed past the last address.
\* Neighbouring blocks differ in their cycle counts.
IrAnalyses(a) ==
  {[ok |-> FALSE, guest_addr |-> a, branch_type |-> "FALL_THROUGH",
    branch_addr |-> INVALID_ADDR, next_addr |-> INVALID_ADDR,
    num_cycles |-> 0, num_instrs |-> 0, size |-> 0]}
  \cup (IF a = IrNumAddrs THEN {} ELSE
        {[ok |-> TRUE, guest_addr |-> a, branch_type |-> t.type,
          branch_addr |-> t.b, next_addr |-> t.n,
          num_cycles |-> 1 + (a % MaxCycles), num_instrs |-> 1,
          size |-> 1] :
           t \in {[type |-> "FALL_THROUGH", b |-> INVALID_ADDR,
                   n |-> INVALID_ADDR],
                  [type |-> "DYNAMIC", b |-> INVALID_ADDR,
                   n |-> INVALID_ADDR]}
                 \cup {[type |-> "STATIC", b |-> b, n |-> INVALID_ADDR] :
                         b \in IrAddrs}
                 \cup {[type |-> ty, b |-> b, n |-> n] :
                         ty \in {"STATIC_TRUE", "STATIC_FALSE"},
                         b \in IrAddrs, n \in (a + 1)..IrNumAddrs}})

\* the guest memories over the addresses 0..k
RECURSIVE IrMemsUpTo(_)
IrMemsUpTo(k) ==
  IF k = 0 THEN {(0 :> x) : x \in IrAnalyses(0)}
  ELSE {m @@ (k :> x) : m \in IrMemsUpTo(k - 1), x \in IrAnalyses(k)}

\* the guest memories a translation can meet over the addresses 0..top
IrMems(top) == IrMemsUpTo(top)

\* the coordinator before the first compilation
FreshJit ==
  [code |-> {}, code_reverse |-> {}, codes |-> <<>>, meta |-> <<>>,
   edges |-> <<>>, visit_token |-> 0,
   dispatch |-> [a \in Addrs |-> NULL], sites |-> [h \in HostAddrs |-> NULL],
   buf_used |-> 0, calls |-> <<>>, fault |-> "none"]

\* the unit tree jit_analyze_code builds for a first compilation at root
\* (<<>> when the analysis of the root fails)
IrTree(mem, root) ==
  With(NewCode(FreshJit, root, 0), LAMBDA new :
    With(jit_analyze_code(new.J, new.code, mem), LAMBDA K :
      IF K.fault # "none" THEN <<>> ELSE K.codes[new.code].root_unit))

\* the instructions a pass can meet in an IR of n blocks
IrInstrs(n) ==
  {Instr("OTHER", "", NoValue)}
  \cup {Instr(op, "", Value("PTR", 0, "dispatch")) :
          op \in {"BRANCH", "BRANCH_TRUE", "BRANCH_FALSE"}}
  \cup {Instr(op, "", Value("BLOCK", b, "")) :
          op \in {"BRANCH", "BRANCH_TRUE", "BRANCH_FALSE"}, b \in 1..n}

\* the instruction lists of one block
IrInstrSeqs(n) ==
  UNION {[1..k -> IrInstrs(n)] : k \in 1..MaxBlockInstrs}

\* the block lists of up to max blocks a pass can meet
IrBlockLists(max) ==
  UNION {{[b \in 1..n |-> [label |-> INVALID_ADDR, unit |-> INVALID_ADDR,
                          instrs |-> f[b]]] :
            f \in [1..n -> IrInstrSeqs(n)]} : n \in 1..max}

\* the IR of one compilation with the stage it is in: "units" before
\* translate_code, "blocks" before cfa_run, "edges" after it
IrState(stage, metas, root_unit, I) ==
  [stage |-> stage, metas |-> metas, root_unit |-> root_unit,
   blocks |-> I.blocks, cur |-> I.cur, edges |-> I.edges]

\* ------------------------------------------------------------- state
\* host address of code c, the name under which history refers to it
HostOf(J, c) == IF c = NULL THEN NULL ELSE J.codes[c].host_addr

\* c has been invalidated: it owns no compile unit any more
Invalidated(J, c) == J.codes[c].root_unit = <<>>

\* the last public operation: its name, how it ended, and, when it acted,
\* what it acted on (addr: the address compiled; hit: the code found by the
\* reverse lookup; dst: the destination code, or the code just built;
\* tomb: that code was already invalidated)
Last(op, res, ret, addr, hit, dst, fastmem, tomb) ==
  [op |-> op, res |-> res, ret |-> ret, addr |-> addr, hit |-> hit,
   dst |-> dst, fastmem |-> fastmem, tomb |-> tomb]

Idle(op, res) == Last(op, res, 0, INVALID_ADDR, NULL, NULL, 0, FALSE)

Init ==
  /\ code = {}
  /\ code_reverse = {}
  /\ codes = <<>>
  /\ meta = <<>>
  /\ edges = <<>>
  /\ visit_token = 0
  /\ dispatch = [a \in Addrs |-> NULL]
  /\ sites = [h \in HostAddrs |-> NULL]
  /\ buf_used = 0
  /\ ndebug \in BOOLEAN
  /\ calls = <<>>
  /\ last = Idle("init", "ok")
  /\ slow = [a \in Addrs |-> "none"]
  /\ fault = "none"
  /\ analysis = Analysis("none", [base |-> 0, instrs |-> <<>>],
                         BlockMeta(0), -1)
  /\ ir = IrState("none", <<>>, <<>>, EmptyIr)

\* the operation ended in state J2; a dead process keeps its last state
Commit(J2) ==
  \E K \in {IF J2.fault = "none" THEN J2 ELSE Jit} :
     /\ fault' = J2.fault
     /\ calls' = J2.calls
     /\ code' = K.code
     /\ code_reverse' = K.code_reverse
     /\ codes' = K.codes
     /\ meta' = K.meta
     /\ edges' = K.edges
     /\ visit_token' = K.visit_token
     /\ dispatch' = K.dispatch
     /\ sites' = K.sites
     /\ buf_used' = K.buf_used
     /\ ndebug' = ndebug
     /\ analysis' = analysis
     /\ ir' = ir

\* ------------------------------------------------------------- history
\* slow[a] remembers a handled fault in the code at a:
\*   "pending"      fastmem was cleared, a has not been compiled since and the
\*                  cache has not been freed since
\*   "pending_ovf"  as "pending", but a compilation of another address
\*                  overflowed the backend since
\*   "done"         fastmem was cleared and a was compiled again, the cache
\*                  has not been freed since
SlowAfterCompile(guest_addr, res) ==
  [a \in Addrs |->
     IF res = "abort" THEN slow[a]
     ELSE IF res = "overflow"
     THEN (IF a # guest_addr /\ slow[a] \in {"pending", "pending_ovf"}
           THEN "pending_ovf" ELSE "none")
     ELSE IF a # guest_addr THEN slow[a]
     ELSE IF slow[a] \in {"pending", "done"} THEN "done" ELSE "none"]

\* ------------------------------------------------------------- actions
CompileCodeAt(guest_addr, mem, size) ==
  \E J2 \in {jit_compile_code(Jit, ndebug, guest_addr, mem, size)} :
    \E res \in {IF J2.fault # "none" THEN "abort"
                ELSE IF backend_can_assemble(Jit, size) THEN "ok"
                ELSE "overflow"} :
      /\ Commit(J2)
      /\ last' = Last("compile_code", res, 0, guest_addr, NULL,
                      IF res = "ok" THEN HostBase + buf_used ELSE NULL,
                      compile_fastmem(Jit, ndebug, guest_addr), FALSE)
      /\ slow' = SlowAfterCompile(guest_addr, res)

CompileCode ==
  /\ fault = "none"
  /\ visit_token < MaxVisitToken
  /\ \E guest_addr \in Addrs, mem \in MemsFor(Jit), size \in 1..MaxCodeSize :
       CompileCodeAt(guest_addr, mem, size)

AddEdgeAt(branch, addr, ub) ==
  \E J2 \in {jit_add_edge(Jit, branch, addr, ub)} :
    /\ Commit(J2)
    /\ last' = IF J2.fault # "none" THEN Idle("add_edge", "abort")
               ELSE IF J2.edges = edges THEN Idle("add_edge", "dropped")
               ELSE Last("add_edge", "added", 0, addr,
                         HostOf(Jit, jit_lookup_code_reverse(Jit, branch)),
                         HostOf(Jit, jit_lookup_code(Jit, addr)), 0,
                         Invalidated(Jit, jit_lookup_code(Jit, addr)))
    /\ slow' = slow

\* the outcomes that can differ for a call with this branch: the undefined
\* read happens only when no code holds the branch
UBOutcomesAt(J, branch) ==
  IF jit_lookup_code_reverse(J, branch) = NULL THEN UBOutcomes ELSE {"fresh"}

AddEdge ==
  /\ fault = "none"
  /\ Cardinality(DOMAIN edges) < MaxEdges
  /\ \E branch \in HostPtrs, addr \in Addrs :
       \E ub \in UBOutcomesAt(Jit, branch) : AddEdgeAt(branch, addr, ub)

InvalidateCache ==
  /\ fault = "none"
  /\ \E J2 \in {jit_invalidate_cache(Jit)} :
       /\ Commit(J2)
       /\ last' = Idle("invalidate_cache",
                       IF J2.fault # "none" THEN "abort" ELSE "ok")
       /\ slow' = slow

FreeCache ==
  /\ fault = "none"
  /\ \E J2 \in {jit_free_cache(Jit)} :
       /\ Commit(J2)
       /\ last' = Idle("free_cache",
                       IF J2.fault # "none" THEN "abort" ELSE "ok")
       /\ slow' = IF J2.fault # "none" THEN slow
                  ELSE [a \in Addrs |-> "none"]

HandleExceptionAt(pc, handled) ==
  \E r \in {jit_handle_exception(Jit, pc, handled)} :
    \E c \in {jit_lookup_code_reverse(Jit, pc)} :
      /\ Commit(r.J)
      /\ last' = IF r.J.fault # "none" THEN Idle("handle_exception", "abort")
                 ELSE IF r.ret = 0 THEN Idle("handle_exception", "ok")
                 ELSE Last("handle_exception", "ok", 1, codes[c].guest_addr,
                           HostOf(Jit, c), NULL, 0, Invalidated(Jit, c))
      /\ slow' = IF r.ret = 1 /\ r.J.fault = "none"
                 THEN [slow EXCEPT ![codes[c].guest_addr] = "pending"]
                 ELSE slow

HandleException ==
  /\ fault = "none"
  /\ \E pc \in HostPtrs, handled \in BOOLEAN : HandleExceptionAt(pc, handled)

Next ==
  \/ CompileCode
  \/ AddEdge
  \/ InvalidateCache
  \/ FreeCache
  \/ HandleException

Spec == Init /\ [][Next]_vars

\* The same operations with room for one more edge: the runs in which a
\* code has several edges at once.
AddEdgeMore ==
  /\ fault = "none"
  /\ Cardinality(DOMAIN edges) < MaxEdges + 1
  /\ \E branch \in HostPtrs, addr \in Addrs :
       \E ub \in UBOutcomesAt(Jit, branch) : AddEdgeAt(branch, addr, ub)

NextEdges ==
  \/ CompileCode
  \/ AddEdgeMore
  \/ InvalidateCache
  \/ FreeCache
  \/ HandleException

SpecEdges == Init /\ [][NextEdges]_vars

\* The same operations with room for one more compilation: the runs in
\* which an address is compiled again after the cache has overflowed in
\* between.
CompileCodeMore ==
  /\ fault = "none"
  /\ visit_token < MaxVisitToken + 1
  /\ \E guest_addr \in Addrs, mem \in MemsFor(Jit), size \in 1..MaxCodeSize :
       CompileCodeAt(guest_addr, mem, size)

NextLong ==
  \/ CompileCodeMore
  \/ AddEdge
  \/ InvalidateCache
  \/ FreeCache
  \/ HandleException

SpecLong == Init /\ [][NextLong]_vars


\* ------------------------------------------------------------- frontend runs
\* An analyze_code call of either frontend on a block of guest memory.
InitFrontend ==
  /\ code = {}
  /\ code_reverse = {}
  /\ codes = <<>>
  /\ meta = <<>>
  /\ edges = <<>>
  /\ visit_token = 0
  /\ dispatch = [a \in Addrs |-> NULL]
  /\ sites = [h \in HostAddrs |-> NULL]
  /\ buf_used = 0
  /\ ndebug \in BOOLEAN
  /\ calls = <<>>
  /\ last = Idle("init", "ok")
  /\ slow = [a \in Addrs |-> "none"]
  /\ fault = "none"
  /\ \/ \E mem \in Sh4Mems, slot \in {0, 2} :
          analysis = Analysis("sh4", mem,
                              BlockMeta(U32Add(mem.base, slot)), -1)
     \/ \E mem \in Armv3Mems, slot \in {0, 4} :
          analysis = Analysis("armv3", mem,
                              BlockMeta(U32Add(mem.base, slot)), -1)
  /\ ir = IrState("none", <<>>, <<>>, EmptyIr)

Sh4AnalyzeCode ==
  /\ fault = "none"
  /\ analysis.isa = "sh4" /\ analysis.ret = -1
  /\ \E r \in {sh4_frontend_analyze_code(analysis.mem, analysis.meta)} :
       /\ analysis' = [analysis EXCEPT !.meta = r.meta,
                                       !.ret = IF r.fault = "none" THEN r.ret
                                               ELSE -1]
       /\ fault' = r.fault
  /\ UNCHANGED <<code, code_reverse, codes, meta, edges, visit_token,
                 dispatch, sites, buf_used, ndebug, calls, last, slow, ir>>

Armv3AnalyzeCode ==
  /\ fault = "none"
  /\ analysis.isa = "armv3" /\ analysis.ret = -1
  /\ \E r \in {armv3_frontend_analyze_code(analysis.mem, analysis.meta)} :
       /\ analysis' = [analysis EXCEPT !.meta = r.meta,
                                       !.ret = IF r.fault = "none" THEN r.ret
                                               ELSE -1]
       /\ fault' = r.fault
  /\ UNCHANGED <<code, code_reverse, codes, meta, edges, visit_token,
                 dispatch, sites, buf_used, ndebug, calls, last, slow, ir>>

NextFrontend ==
  \/ Sh4AnalyzeCode
  \/ Armv3AnalyzeCode

SpecFrontend == InitFrontend /\ [][NextFrontend]_vars

\* ------------------------------------------------------------- ir runs
\* translate_code of the sh4 guest on a unit tree, and cfa_run on an IR.
InitIr ==
  /\ code = {}
  /\ code_reverse = {}
  /\ codes = <<>>
  /\ meta = <<>>
  /\ edges = <<>>
  /\ visit_token = 0
  /\ dispatch = [a \in Addrs |-> NULL]
  /\ sites = [h \in HostAddrs |-> NULL]
  /\ buf_used = 0
  /\ ndebug = FALSE
  /\ calls = <<>>
  /\ last = Idle("init", "ok")
  /\ slow = [a \in Addrs |-> "none"]
  /\ fault = "none"
  /\ analysis = Analysis("none", [base |-> 0, instrs |-> <<>>],
                         BlockMeta(0), -1)
  /\ \/ \E mem \in IrMems(IrNumAddrs), root \in IrAddrs :
          \E tree \in {IrTree(mem, root)} :
             /\ tree # <<>>
             /\ ir = IrState("units", mem, tree, EmptyIr)
     \/ \E blocks \in IrBlockLists(MaxBlocks) :
          ir = IrState("blocks", <<>>, <<>>,
                       [EmptyIr EXCEPT !.blocks = blocks])

Sh4Translate ==
  /\ fault = "none"
  /\ ir.stage = "units"
  /\ \E I \in {sh4_translate(ir.metas, ir.root_unit)} :
       ir' = IrState("blocks", ir.metas, ir.root_unit, I)
  /\ UNCHANGED <<code, code_reverse, codes, meta, edges, visit_token,
                 dispatch, sites, buf_used, ndebug, calls, last, slow, fault,
                 analysis>>

CfaRun ==
  /\ fault = "none"
  /\ ir.stage = "blocks"
  /\ \E I \in {cfa_run([blocks |-> ir.blocks, cur |-> ir.cur,
                        edges |-> ir.edges])} :
       ir' = IrState("edges", ir.metas, ir.root_unit, I)
  /\ UNCHANGED <<code, code_reverse, codes, meta, edges, visit_token,
                 dispatch, sites, buf_used, ndebug, calls, last, slow, fault,
                 analysis>>

NextIr ==
  \/ Sh4Translate
  \/ CfaRun

SpecIr == InitIr /\ [][NextIr]_vars

\* ------------------------------------------------------------- properties
\* the coordinator's own state, without the observation variables
core == <<code, code_reverse, codes, meta, edges, visit_token, dispatch,
          sites, buf_used>>

\* the codes whose host range holds host address p
CodesAt(p) ==
  {c \in code_reverse : /\ codes[c].host_addr <= p
                        /\ p < codes[c].host_addr + codes[c].host_size}

\* the number of entries of log that name the collaborator call fn
CountCalls(log, fn) == Cardinality({i \in DOMAIN log : log[i][1] = fn})

\* C1: in every reachable state a code object is in the forward map if and
\* only if it is in the reverse map
C1_ForwardIffReverse ==
  \A c \in code \cup code_reverse : c \in code /\ c \in code_reverse

\* a recompilation has just run with a live code beside an invalidated one
C1_Witness ==
  /\ last.op = "compile_code" /\ last.res = "ok"
  /\ Cardinality(code) = 2 /\ Cardinality(code_reverse) = 2
  /\ \E c \in code_reverse : Invalidated(Jit, c)

\* C2: add_edge with a branch address inside no registered code returns
\* normally, allocates no edge, calls no collaborator and changes nothing
C2_UnregisteredBranchReturns ==
  [][\A branch \in HostPtrs, addr \in Addrs, ub \in UBOutcomes :
       (/\ last'.op = "add_edge"
        /\ jit_lookup_code_reverse(Jit, branch) = NULL
        /\ AddEdgeAt(branch, addr, ub))
       => (fault' = "none" /\ core' = core /\ calls' = <<>>)]_vars

\* C3: every edge is in its source's out_edges and its destination's
\* in_edges, and every list entry is an edge with that code as endpoint
C3_EdgeIntegrity ==
  /\ \A e \in DOMAIN edges :
       /\ edges[e].src \in DOMAIN codes
       /\ edges[e].dst \in DOMAIN codes
       /\ e \in Range(codes[edges[e].src].out_edges)
       /\ e \in Range(codes[edges[e].dst].in_edges)
  /\ \A c \in DOMAIN codes :
       /\ \A e \in Range(codes[c].in_edges) :
            e \in DOMAIN edges /\ edges[e].dst = c
       /\ \A e \in Range(codes[c].out_edges) :
            e \in DOMAIN edges /\ edges[e].src = c

\* an edge between two different codes exists
C3_Witness ==
  \E e \in DOMAIN edges :
    /\ edges[e].src # edges[e].dst
    /\ codes[edges[e].src].out_edges = <<e>>
    /\ codes[edges[e].dst].in_edges = <<e>>

\* code c is invalidated in the state after the step
InvalidatedAfter(c) ==
  /\ c \in DOMAIN codes'
  /\ codes'[c].root_unit = <<>>
  /\ codes'[c].in_edges = <<>> /\ codes'[c].out_edges = <<>>
  /\ \A e \in DOMAIN edges' : edges'[e].src # c /\ edges'[e].dst # c
  /\ \A a \in DOMAIN meta' : \A u \in Range(meta'[a].compile_refs) : u[1] # c
  /\ dispatch'[codes'[c].guest_addr] = NULL

\* C4: a handled fault whose pc lies inside a registered code returns 1,
\* clears that code's fastmem flag, invalidates it and leaves the sets of codes
\* in both maps as they were, also when the code was invalidated before
C4_HandledFaultKeepsMaps ==
  [][\A pc \in HostPtrs :
       (/\ last'.op = "handle_exception"
        /\ CodesAt(pc) # {}
        /\ HandleExceptionAt(pc, TRUE))
       => (/\ fault' = "none"
           /\ last'.ret = 1
           /\ code' = code /\ code_reverse' = code_reverse
           /\ \A c \in CodesAt(pc) :
                InvalidatedAfter(c) /\ codes'[c].fastmem = 0)]_vars

\* a handled fault has hit a code that was already invalidated
C4_Witness ==
  /\ last.op = "handle_exception" /\ last.ret = 1 /\ last.tomb
  /\ \E c \in code \cap code_reverse :
       /\ codes[c].host_addr = last.hit
       /\ codes[c].fastmem = 0 /\ Invalidated(Jit, c)

\* the step compiled guest address X and built its code without fastmem
BuiltSlow(X) ==
  /\ <<"translate_code", X, 0>> \in Range(calls')
  /\ \A c \in code' : codes'[c].guest_addr = X => codes'[c].fastmem = 0

\* C5, as the claim states it: after a handled fault in the code at X the
\* next compile_code(X) builds with fastmem 0 whatever happened in between,
\* compilations of other addresses that overflow the backend included
C5_SlowWhateverBetween ==
  [][\A X \in Addrs :
       (/\ last'.op = "compile_code" /\ last'.addr = X /\ fault' = "none"
        /\ slow[X] \in {"pending", "pending_ovf"})
       => BuiltSlow(X)]_vars

\* C5, amended: after a handled fault in the code at X the next
\* compile_code(X) builds with fastmem 0 whatever compilations of other
\* addresses that fit the backend's buffer, add_edge calls, invalidate_cache
\* calls and further faults happened in between
C5_SlowUnlessCacheFreed ==
  [][\A X \in Addrs :
       (/\ last'.op = "compile_code" /\ last'.addr = X /\ fault' = "none"
        /\ slow[X] = "pending")
       => BuiltSlow(X)]_vars

\* a release build has recompiled a faulted address: the translation ran
\* without fastmem and the code now registered there has the flag cleared
C5_Witness ==
  /\ ndebug
  /\ last.op = "compile_code" /\ last.res = "ok" /\ last.fastmem = 0
  /\ slow[last.addr] = "done"
  /\ <<"translate_code", last.addr, 0>> \in Range(calls)
  /\ \E c \in code :
       /\ codes[c].guest_addr = last.addr
       /\ codes[c].host_addr = last.dst
       /\ codes[c].fastmem = 0

\* C6: a code's fastmem flag never goes from 0 to 1, and once a handled
\* fault has cleared the flag of the code at X every code compiled at X
\* afterwards has fastmem 0 until the cache is freed, by free_cache or by a
\* backend overflow
C6_FastmemMonotone ==
  [][/\ \A c \in DOMAIN codes \cap DOMAIN codes' :
          (codes'[c].host_addr = codes[c].host_addr
           /\ codes[c].host_addr # NULL)
          => codes'[c].fastmem <= codes[c].fastmem
     /\ \A X \in Addrs :
          (/\ last'.op = "compile_code" /\ last'.addr = X /\ fault' = "none"
           /\ slow[X] \in {"pending", "done"})
          => BuiltSlow(X)]_vars

\* in a release build a live code compiled after a fault at its address
\* runs without fastmem
C6_Witness ==
  /\ ndebug
  /\ \E c \in code :
       /\ slow[codes[c].guest_addr] = "done"
       /\ codes[c].fastmem = 0
       /\ ~Invalidated(Jit, c)

\* C7: when assemble_code fails, compile_code returns with the forward map,
\* the reverse map and the meta map empty, the in-flight code freed, nothing
\* registered with the dispatcher for the address, and backend reset called
C7_OverflowEmptiesCache ==
  \A X \in Addrs, size \in 1..MaxCodeSize :
    (/\ last.op = "compile_code" /\ last.addr = X
     /\ <<"assemble_code", NULL, size>> \in Range(calls))
    => (/\ fault = "none"
        /\ code = {} /\ code_reverse = {} /\ DOMAIN meta = {}
        /\ DOMAIN codes = {} /\ DOMAIN edges = {}
        /\ dispatch[X] = NULL
        /\ CountCalls(calls, "cache_code") = 0
        /\ CountCalls(calls, "reset") = 1)

\* a compilation has overflowed while the cache held a faulted code of
\* another address
C7_Witness ==
  /\ last.op = "compile_code" /\ last.res = "overflow"
  /\ code = {} /\ DOMAIN meta = {}
  /\ \E a \in Addrs : a # last.addr /\ slow[a] = "pending_ovf"

\* C8: after a compile_code(X) whose assemble step succeeds the forward map
\* holds exactly one code for X, the one just assembled; a code registered
\* at X before is in neither map; the dispatcher's entry for X is the new
\* code's host address
C8_CompileReplaces ==
  [][\A X \in Addrs, size \in 1..MaxCodeSize :
       (/\ last'.op = "compile_code" /\ last'.addr = X
        /\ <<"assemble_code", HostBase + buf_used, size>> \in Range(calls'))
       => (/\ fault' = "none"
           /\ \E c \in code' :
                /\ {d \in code' : codes'[d].guest_addr = X} = {c}
                /\ c \in code_reverse'
                /\ codes'[c].host_addr = HostBase + buf_used
                /\ codes'[c].host_size = size
                /\ dispatch'[X] = codes'[c].host_addr
           /\ \A old \in code \cup code_reverse :
                codes[old].guest_addr = X
                => \A d \in code' \cup code_reverse' :
                     codes'[d].host_addr # codes[old].host_addr)]_vars

\* a compilation has replaced the faulted code registered at its address
C8_Witness ==
  /\ last.op = "compile_code" /\ last.res = "ok"
  /\ slow[last.addr] = "done"
  /\ dispatch[last.addr] = last.dst
  /\ Cardinality({c \in code : codes[c].guest_addr = last.addr}) = 1

\* C9: the reverse lookup of a host address returns the registered code
\* whose range holds it, and no code when the map is empty, the address lies
\* below every registered code or at or past the end of the code before it
C9_ReverseLookup ==
  /\ \A c, d \in code_reverse :
       c # d => \/ codes[c].host_addr + codes[c].host_size <= codes[d].host_addr
                \/ codes[d].host_addr + codes[d].host_size <= codes[c].host_addr
  /\ \A p \in HostPtrs :
       IF CodesAt(p) = {} THEN jit_lookup_code_reverse(Jit, p) = NULL
       ELSE CodesAt(p) = {jit_lookup_code_reverse(Jit, p)}

\* a code is registered above a freed gap and below unused buffer: lookups
\* below it, inside it and past its end all happen
C9_Witness ==
  \E c \in code_reverse :
    /\ code_reverse = {c}
    /\ codes[c].host_addr = HostBase + 1 /\ codes[c].host_size = 1
    /\ jit_lookup_code_reverse(Jit, HostBase) = NULL
    /\ jit_lookup_code_reverse(Jit, HostBase + 1) = c
    /\ jit_lookup_code_reverse(Jit, HostBase + 2) = NULL

\* C10: add_edge(branch, addr) with the code holding branch registered and
\* not stale and a code registered at addr adds exactly one edge, with that
\* branch, source and destination, at the tail of the source's out_edges and
\* of the destination's in_edges, leaves it patched, and calls
\* guest.patch_edge(branch, dst.host_addr) exactly once
C10_AddEdgeLinksAndPatches ==
  [][\A branch \in HostPtrs, addr \in Addrs, ub \in UBOutcomes :
       (/\ last'.op = "add_edge"
        /\ CodesAt(branch) # {}
        /\ \A src \in CodesAt(branch) :
             dispatch[codes[src].guest_addr] = codes[src].host_addr
        /\ \E dst \in code : codes[dst].guest_addr = addr
        /\ AddEdgeAt(branch, addr, ub))
       => \E src \in CodesAt(branch), dst \in code,
             e \in DOMAIN edges' \ DOMAIN edges :
            /\ codes[dst].guest_addr = addr
            /\ fault' = "none"
            /\ DOMAIN edges' = DOMAIN edges \cup {e}
            /\ \A f \in DOMAIN edges : edges'[f] = edges[f]
            /\ edges'[e] = [src |-> src, dst |-> dst, branch |-> branch,
                            patched |-> 1]
            /\ DOMAIN codes' = DOMAIN codes
            /\ \A c \in DOMAIN codes :
                 /\ codes'[c].out_edges =
                      IF c = src THEN Append(codes[c].out_edges, e)
                      ELSE codes[c].out_edges
                 /\ codes'[c].in_edges =
                      IF c = dst THEN Append(codes[c].in_edges, e)
                      ELSE codes[c].in_edges
            /\ calls' = << <<"patch_edge", branch, codes[dst].host_addr>> >>
            /\ sites'[branch] = codes[dst].host_addr]_vars

\* add_edge has just linked and patched an edge between two codes
C10_Witness ==
  /\ last.op = "add_edge" /\ last.res = "added"
  /\ \E e \in DOMAIN edges :
       /\ calls = << <<"patch_edge", edges[e].branch,
                       codes[edges[e].dst].host_addr>> >>
       /\ edges[e].patched = 1
       /\ edges[e].src # edges[e].dst
       /\ sites[edges[e].branch] = codes[edges[e].dst].host_addr

\* C11: add_edge whose source code is registered but stale, or whose
\* destination address has no registered code, creates no edge, calls
\* guest.patch_edge zero times and changes no map, edge list or flag
C11_StaleOrAbsentDrops ==
  [][\A branch \in HostPtrs, addr \in Addrs, ub \in UBOutcomes :
       (/\ last'.op = "add_edge"
        /\ \/ \E src \in CodesAt(branch) :
                dispatch[codes[src].guest_addr] # codes[src].host_addr
           \/ \A dst \in code : codes[dst].guest_addr # addr
        /\ AddEdgeAt(branch, addr, ub))
       => (fault' = "none" /\ core' = core /\ calls' = <<>>)]_vars

\* the units of the tree u, each as <<path from the root, meta>>
RECURSIVE UnitsOf(_, _)
UnitsOf(u, path) ==
  IF u = <<>> THEN {}
  ELSE {<<path, u[1].meta>>}
       \cup UnitsOf(u[1].branch, Append(path, "branch"))
       \cup UnitsOf(u[1].next, Append(path, "next"))

\* the compile units that exist and whose meta field is the meta at a
UnitsWithMeta(a) ==
  UNION {{UnitRef(c, pm[1]) :
            pm \in {x \in UnitsOf(codes[c].root_unit, <<>>) : x[2] = a}} :
         c \in DOMAIN codes}

\* C12: for every meta, compile_refs holds exactly the compile units whose
\* meta it is, each once, and each belongs to the unit tree of a code that
\* is not invalidated; no unit refers to a meta outside the meta map
C12_CompileRefsExact ==
  /\ \A a \in DOMAIN meta :
       /\ Range(meta[a].compile_refs) = UnitsWithMeta(a)
       /\ Cardinality(Range(meta[a].compile_refs)) = Len(meta[a].compile_refs)
       /\ \A r \in Range(meta[a].compile_refs) :
            r[1] \in DOMAIN codes /\ ~Invalidated(Jit, r[1])
  /\ \A c \in DOMAIN codes :
       \A pm \in UnitsOf(codes[c].root_unit, <<>>) : pm[2] \in DOMAIN meta

\* a meta is shared by the unit trees of two codes
C12_Witness ==
  \E a \in DOMAIN meta :
    /\ Len(meta[a].compile_refs) = 2
    /\ \E r, q \in Range(meta[a].compile_refs) : r[1] # q[1]
\* the coordinator after invalidate_code(c), and after a second one
InvalidatedOnce(c) == jit_invalidate_code(Jit, c)
InvalidatedTwice(c) ==
  jit_invalidate_code([InvalidatedOnce(c) EXCEPT !.calls = <<>>], c)

\* C13: invalidate_code(c) applied twice leaves the maps, the edge lists,
\* the metas' compile_refs, c's fields and the dispatcher's cache as one
\* application does, and the second application calls no restore_edge
C13_InvalidateTwiceIsOnce ==
  \A c \in DOMAIN codes :
    /\ InvalidatedOnce(c).fault = "none"
    /\ InvalidatedTwice(c).fault = "none"
    /\ [InvalidatedTwice(c) EXCEPT !.calls = <<>>]
         = [InvalidatedOnce(c) EXCEPT !.calls = <<>>]
    /\ CountCalls(InvalidatedTwice(c).calls, "restore_edge") = 0

\* a live code has an incoming edge from another code and an outgoing
\* edge, so that the first invalidation restores and destroys edges
C13_Witness ==
  \E c \in code :
    /\ ~Invalidated(Jit, c)
    /\ \E e \in Range(codes[c].in_edges) : edges[e].src # c
    /\ codes[c].out_edges # <<>>
    /\ CountCalls(InvalidatedOnce(c).calls, "restore_edge") >= 1
    /\ InvalidatedOnce(c).edges # edges

\* the edges that have code c as source or destination
Touching(c) == {e \in DOMAIN edges : edges[e].src = c \/ edges[e].dst = c}

\* in coordinator state J no edge, and no edge list, knows code c
Unlinked(J, c) ==
  /\ DOMAIN J.edges = DOMAIN edges \ Touching(c)
  /\ \A e \in DOMAIN J.edges : J.edges[e] = edges[e]
  /\ \A d \in DOMAIN J.codes \ {c} :
       /\ J.codes[d].in_edges =
            SelectSeq(codes[d].in_edges, LAMBDA e : e \notin Touching(c))
       /\ J.codes[d].out_edges =
            SelectSeq(codes[d].out_edges, LAMBDA e : e \notin Touching(c))

\* C14: after invalidate_code(c), and after free_code(c), c has no unit
\* tree and no edges, no other code's list holds an edge from or to c, and
\* every edge touching c, a self-edge included, is unlinked from both lists
\* and freed exactly once
C14_InvalidateUnlinksAll ==
  \A c \in DOMAIN codes :
    /\ InvalidatedOnce(c).fault = "none"
    /\ DOMAIN InvalidatedOnce(c).codes = DOMAIN codes
    /\ InvalidatedOnce(c).codes[c].root_unit = <<>>
    /\ InvalidatedOnce(c).codes[c].in_edges = <<>>
    /\ InvalidatedOnce(c).codes[c].out_edges = <<>>
    /\ Unlinked(InvalidatedOnce(c), c)
    /\ jit_free_code(Jit, c).fault = "none"
    /\ DOMAIN jit_free_code(Jit, c).codes = DOMAIN codes \ {c}
    /\ Unlinked(jit_free_code(Jit, c), c)

\* a code has a self-edge and an edge shared with another code
C14_Witness ==
  \E c \in code : \E e, f \in Touching(c) :
    /\ edges[e].src = c /\ edges[e].dst = c
    /\ edges[f].src # edges[f].dst
    /\ ~Invalidated(Jit, c)
\* C15: invalidate_cache leaves the sets of codes in both maps as they
\* were, leaves every one of those codes invalidated (no compile units, no
\* edges, dropped from the dispatcher) and leaves the meta map empty
C15_InvalidateCacheKeepsMaps ==
  [][(last'.op = "invalidate_cache" /\ InvalidateCache)
     => (/\ fault' = "none"
         /\ code' = code /\ code_reverse' = code_reverse
         /\ \A c \in code \cup code_reverse : InvalidatedAfter(c)
         /\ DOMAIN edges' = {}
         /\ DOMAIN meta' = {})]_vars

\* invalidate_cache has just run on a cache of two codes
C15_Witness ==
  /\ last.op = "invalidate_cache" /\ last.res = "ok"
  /\ Cardinality(code) = 2 /\ code_reverse = code
  /\ \A c \in code : Invalidated(Jit, c)
  /\ CountCalls(calls, "invalidate_code") = 2
  /\ DOMAIN meta = {}

\* C16: the assertion of jit_free_meta fails in no call the public
\* operations can make: a meta is freed only with an empty compile_refs
C16_FreeMetaAssertionHolds ==
  fault # "code must be free'd before meta data"

\* invalidate_cache has freed the metas of a cache whose code, built with
\* fastmem, stays in the maps
C16_Witness ==
  /\ last.op = "invalidate_cache" /\ fault = "none"
  /\ DOMAIN meta = {}
  /\ \E c \in code : codes[c].fastmem = 1 /\ Invalidated(Jit, c)
  /\ CountCalls(calls, "invalidate_code") >= 1

\* C17: after free_cache both maps and the meta map are empty, no edge and
\* no code object exists, the dispatcher was told to drop every address
\* that was registered, and that call reset the backend exactly once
C17_FreeCacheEmptiesAll ==
  [][(last'.op = "free_cache" /\ FreeCache)
     => (/\ fault' = "none"
         /\ code' = {} /\ code_reverse' = {} /\ DOMAIN meta' = {}
         /\ DOMAIN edges' = {} /\ DOMAIN codes' = {}
         /\ \A c \in code :
              <<"invalidate_code", codes[c].guest_addr, NULL>> \in Range(calls')
         /\ \A a \in Addrs : dispatch'[a] = NULL
         /\ CountCalls(calls', "reset") = 1
         /\ calls'[Len(calls')] = <<"reset", NULL, NULL>>)]_vars

\* free_cache has just freed a cache that held two codes
C17_Witness ==
  /\ last.op = "free_cache" /\ last.res = "ok"
  /\ code = {} /\ code_reverse = {} /\ DOMAIN meta = {}
  /\ CountCalls(calls, "invalidate_code") = 2
  /\ CountCalls(calls, "reset") = 1

\* C18: the fault handler returns 0 and changes nothing when the pc lies
\* inside no registered code or the backend declines the fault, and it asks
\* the backend only when the reverse lookup found a code
C18_DeclinedFaultChangesNothing ==
  [][\A pc \in HostPtrs, handled \in BOOLEAN :
       (/\ last'.op = "handle_exception"
        /\ (CodesAt(pc) = {} \/ ~handled)
        /\ HandleExceptionAt(pc, handled))
       => (/\ fault' = "none"
           /\ last'.ret = 0
           /\ core' = core
           /\ calls' = IF CodesAt(pc) = {} THEN <<>>
                       ELSE << <<"handle_exception", NULL, 0>> >>)]_vars

\* the backend has just declined a fault inside a live code built with
\* fastmem
C18_Witness ==
  /\ last.op = "handle_exception" /\ last.ret = 0
  /\ calls = << <<"handle_exception", NULL, 0>> >>
  /\ \E c \in code_reverse : codes[c].fastmem = 1 /\ ~Invalidated(Jit, c)
\* C19: a code that is invalidated but still in the maps has no incoming
\* and no outgoing edge in any reachable state, whatever add_edge calls
\* follow its invalidation
C19_TombstoneHasNoEdges ==
  \A c \in code \cup code_reverse :
    Invalidated(Jit, c)
    => codes[c].in_edges = <<>> /\ codes[c].out_edges = <<>>

\* the metas of the units of tree u
MetasOf(u) == {pm[2] : pm \in UnitsOf(u, <<>>)}

\* C20: in the unit tree of a code each meta is referenced by at most one
\* unit; and when compile_code(A) has run with A branching to B and B
\* leading back to A, the root is A, its branch child is B, and no unit
\* below B is for A
C20_MetaOncePerTree ==
  /\ \A c \in DOMAIN codes :
       \A x, y \in UnitsOf(codes[c].root_unit, <<>>) : x[2] = y[2] => x = y
  /\ (last.op = "compile_code" /\ last.res = "ok")
     => \A c \in code :
          codes[c].host_addr = last.dst
          => /\ codes[c].root_unit # <<>>
             /\ codes[c].root_unit[1].meta = last.addr
             /\ \A B \in DOMAIN meta \ {last.addr} :
                  (/\ meta[last.addr].branch_addr = B
                   /\ last.addr \in {meta[B].branch_addr, meta[B].next_addr})
                  => /\ codes[c].root_unit[1].branch # <<>>
                     /\ codes[c].root_unit[1].branch[1].meta = B
                     /\ last.addr \notin
                          MetasOf(codes[c].root_unit[1].branch[1].branch)
                          \cup MetasOf(codes[c].root_unit[1].branch[1].next)

\* compile_code(A) has just run on a cycle: A branches to B and B falls
\* through to A; the tree is root A with the single child B
C20_Witness ==
  /\ last.op = "compile_code" /\ last.res = "ok"
  /\ \E B \in DOMAIN meta \ {last.addr} :
       /\ meta[last.addr].branch_addr = B
       /\ meta[B].next_addr = last.addr
       /\ \E c \in code :
            /\ codes[c].host_addr = last.dst
            /\ codes[c].root_unit =
                 <<[meta |-> last.addr,
                    branch |-> <<[meta |-> B, branch |-> <<>>,
                                  next |-> <<>>]>>,
                    next |-> <<>>]>>

\* C21: when analyze_code fails for the entry address given to
\* compile_code, compile_code returns normally, registers no code, leaves
\* both maps, the metas and the edges consistent, and the process lives
\* on, so that the same address can be compiled again
C21_RootFailureReturns ==
  [][(/\ last'.op = "compile_code"
      /\ <<"analyze_code", last'.addr, 0>> \in Range(calls'))
     => /\ fault' = "none"
        /\ CountCalls(calls', "cache_code") = 0
        /\ \A c \in code' : codes'[c].guest_addr # last'.addr
        /\ C1_ForwardIffReverse'
        /\ last'.addr \notin DOMAIN meta']_vars

\* the restore_edge calls owed to the patched incoming edges of c, in list
\* order
RestoresOf(c) ==
  LET ins == SelectSeq(codes[c].in_edges, LAMBDA e : edges[e].patched # 0)
  IN [i \in 1..Len(ins) |->
        <<"restore_edge", edges[ins[i]].branch, codes[c].guest_addr>>]

\* C22: invalidate_code(c) first tells the dispatcher to drop
\* c.guest_addr, then calls guest.restore_edge(e.branch, c.guest_addr)
\* exactly once for every patched incoming edge e, while e still exists,
\* and calls restore_edge for no outgoing edge
C22_InvalidateThenRestoreIncoming ==
  \A c \in DOMAIN codes :
    /\ InvalidatedOnce(c).fault = "none"
    /\ InvalidatedOnce(c).calls =
         << <<"invalidate_code", codes[c].guest_addr, NULL>> >> \o RestoresOf(c)
    /\ \A e \in Range(codes[c].in_edges) : e \in DOMAIN edges

\* a live code has a patched incoming edge from another code and an
\* outgoing edge to another code: invalidating it makes two calls, the
\* dispatcher's invalidate_code and one restore_edge
C22_Witness ==
  \E c \in code :
    /\ \E e \in Range(codes[c].in_edges) :
         edges[e].src # c /\ edges[e].patched # 0
    /\ \E e \in Range(codes[c].out_edges) : edges[e].dst # c
    /\ Len(InvalidatedOnce(c).calls) = 1 + Len(codes[c].in_edges)
    /\ InvalidatedOnce(c).calls[1][1] = "invalidate_code"

\* C23: invalidate_code, and the dispatcher's invalidate_code call it
\* makes, is applied only to a code that was finalized before: the code
\* compile_code has under construction is never invalidated, so that once
\* the backend was asked to assemble it the dispatcher is not told to
\* invalidate its address unless the code was cached first
C23_InvalidateOnlyFinalized ==
  [][last'.op = "compile_code"
     => \A i, j \in DOMAIN calls' :
          (/\ i < j
           /\ calls'[i][1] = "assemble_code"
           /\ calls'[j] = <<"invalidate_code", last'.addr, NULL>>)
          => \E k \in (i + 1)..(j - 1) :
               calls'[k][1] = "cache_code" /\ calls'[k][2] = last'.addr]_vars

\* C24: neither assertion at the start of finalize_code ever fails (the
\* code has no edges; the code is in neither map), and no code is
\* finalized twice: only compile_code finalizes, at most once per call,
\* and the code it registers is none of the codes registered before
C24_FinalizeOnceAssertionsHold ==
  [][/\ fault' \notin {"code shouldn't have any existing edges",
                       "code was already inserted in lookup tables"}
     /\ CountCalls(calls', "cache_code")
          <= (IF last'.op = "compile_code" THEN 1 ELSE 0)
     /\ \A i \in DOMAIN calls' :
          calls'[i][1] = "cache_code"
          => /\ calls'[i][2] = last'.addr
             /\ \A c \in code \cup code_reverse :
                  codes[c].host_addr # calls'[i][3]]_vars

\* compile_code has replaced a registered code: the old one was freed and
\* a new one was built at the same address, finalized and registered
C24_Witness ==
  /\ last.op = "compile_code" /\ last.res = "ok"
  /\ CountCalls(calls, "cache_code") = 1
  /\ calls[1] = <<"invalidate_code", last.addr, NULL>>
  /\ \E c \in code \cap code_reverse :
       /\ codes[c].guest_addr = last.addr
       /\ codes[c].host_addr = last.dst
       /\ last.dst > HostBase

\* the units of tree u, as records
RECURSIVE SubUnits(_)
SubUnits(u) ==
  IF u = <<>> THEN {}
  ELSE {u[1]} \cup SubUnits(u[1].branch) \cup SubUnits(u[1].next)

\* C25: when analyze_code fails for a newly discovered address that is not
\* the entry address, the fresh meta is removed from the meta map, no unit
\* is created for the address, the child of the parent unit on that path
\* is null, and the compilation of the entry address still completes; the
\* address having no meta, a later walk analyses it again
C25_ChildFailurePrunes ==
  \A Y \in Addrs :
    (/\ last.op = "compile_code"
     /\ Y # last.addr
     /\ <<"analyze_code", Y, 0>> \in Range(calls))
    => /\ fault = "none"
       /\ Y \notin DOMAIN meta
       /\ CountCalls(calls, "assemble_code") = 1
       /\ \A c \in DOMAIN codes :
            \A u \in SubUnits(codes[c].root_unit) :
              /\ u.meta # Y
              /\ meta[u.meta].branch_addr = Y => u.branch = <<>>
              /\ meta[u.meta].next_addr = Y => u.next = <<>>

\* compile_code has built and registered a code whose root block branches
\* to an address where analyze_code failed: the root unit has no branch
\* child and the address has no meta
C25_Witness ==
  /\ last.op = "compile_code" /\ last.res = "ok"
  /\ \E Y \in Addrs \ {last.addr} :
       /\ <<"analyze_code", Y, 0>> \in Range(calls)
       /\ Y \notin DOMAIN meta
       /\ meta[last.addr].branch_addr = Y
       /\ \E c \in code :
            /\ codes[c].host_addr = last.dst
            /\ codes[c].root_unit # <<>>
            /\ codes[c].root_unit[1].meta = last.addr
            /\ codes[c].root_unit[1].branch = <<>>

\* C26: analyze_code is invoked only for an address that has no meta: not
\* for a meta cached by an earlier compilation, and not a second time in
\* the walk that created the meta; a cached meta is reused as it is, and
\* metas leave the meta map only when free_cache or invalidate_cache (or
\* the free_cache of a backend overflow) empties it
C26_AnalyzeOnlyWithoutMeta ==
  [][/\ \A i \in DOMAIN calls' :
          calls'[i][1] = "analyze_code"
          => /\ last'.op = "compile_code"
             /\ calls'[i][2] \notin DOMAIN meta
             /\ \A j \in 1..(i - 1) :
                  calls'[j] # <<"analyze_code", calls'[i][2], 1>>
     /\ \A a \in DOMAIN meta :
          IF a \in DOMAIN meta'
          THEN /\ meta'[a].branch_addr = meta[a].branch_addr
               /\ meta'[a].next_addr = meta[a].next_addr
          ELSE /\ meta' = <<>>
               /\ \/ last'.op \in {"free_cache", "invalidate_cache"}
                  \/ last'.op = "compile_code" /\ last'.res = "overflow"]_vars

\* compile_code has built a code from cached metas alone: the block at the
\* entry address and the block it branches to were analysed by an earlier
\* compilation and no analyze_code call was made
C26_Witness ==
  /\ last.op = "compile_code" /\ last.res = "ok"
  /\ CountCalls(calls, "analyze_code") = 0
  /\ CountCalls(calls, "translate_code") = 1
  /\ \E c \in code :
       /\ codes[c].host_addr = last.dst
       /\ codes[c].root_unit # <<>>
       /\ codes[c].root_unit[1].branch # <<>>

\* C27: the walk explores the branch path of a unit completely before its
\* fall-through path: no block that the unit or a unit of its branch
\* subtree leads to has its unit in the next subtree, the two subtrees
\* share no meta, and the next path is pruned wherever it reaches a block
\* of the branch subtree
C27_BranchBeforeNext ==
  \A c \in DOMAIN codes :
    \A u \in SubUnits(codes[c].root_unit) :
      /\ MetasOf(u.branch) \cap MetasOf(u.next) = {}
      /\ \A w \in {u} \cup SubUnits(u.branch) :
           /\ meta[w.meta].branch_addr \notin MetasOf(u.next)
           /\ w # u => meta[w.meta].next_addr \notin MetasOf(u.next)
      /\ meta[u.meta].next_addr \in MetasOf(u.branch) => u.next = <<>>
      /\ \A w \in SubUnits(u.next) :
           /\ meta[w.meta].branch_addr \in MetasOf(u.branch) => w.branch = <<>>
           /\ meta[w.meta].next_addr \in MetasOf(u.branch) => w.next = <<>>

\* a registered code whose root block reaches the same block by its
\* branch and by its fall-through: the block's unit is the branch child
\* and the root has no next child
C27_Witness ==
  \E c \in code :
    /\ codes[c].root_unit # <<>>
    /\ \E Y \in DOMAIN meta \ {codes[c].root_unit[1].meta} :
         /\ meta[codes[c].root_unit[1].meta].branch_addr = Y
         /\ meta[codes[c].root_unit[1].meta].next_addr = Y
         /\ codes[c].root_unit[1].branch # <<>>
         /\ codes[c].root_unit[1].branch[1].meta = Y
         /\ codes[c].root_unit[1].next = <<>>

\* the calls of one translation: the frontend, then the six passes
PipelineCalls(X, fastmem) ==
  << <<"translate_code", X, fastmem>>, <<"cfa_run", 0, 0>>,
     <<"lse_run", 0, 0>>, <<"cprop_run", 0, 0>>, <<"esimp_run", 0, 0>>,
     <<"dce_run", 0, 0>>, <<"ra_run", 0, 0>> >>

\* C28: a compile_code call runs, in this order and each once: the
\* analysis walk, frontend translate_code, CFA, LSE, CPROP, ESIMP, DCE, RA,
\* backend assemble_code; finalize_code runs if and only if assemble_code
\* succeeded, and the new code enters the maps, and the dispatcher's
\* cache, only after assemble_code has returned
C28_PipelineOrder ==
  [][(last'.op = "compile_code" /\ fault' = "none")
     => /\ visit_token' = visit_token + 1
        /\ \E k \in DOMAIN calls' :
             /\ k + 7 <= Len(calls')
             /\ SubSeq(calls', k, k + 6)
                  = PipelineCalls(last'.addr, last'.fastmem)
             /\ calls'[k + 7][1] = "assemble_code"
             /\ \A i \in 1..(k - 1) :
                  /\ calls'[i][1] \in {"invalidate_code", "restore_edge",
                                       "analyze_code"}
                  /\ calls'[i][1] = "analyze_code"
                     => \A j \in (i + 1)..(k - 1) :
                          calls'[j][1] = "analyze_code"
             /\ \A i \in (k + 8)..Len(calls') :
                  calls'[i][1] \in {"cache_code", "invalidate_code",
                                    "restore_edge", "reset"}
             /\ IF calls'[k + 7][2] # NULL
                THEN /\ Len(calls') = k + 8
                     /\ calls'[k + 8]
                          = <<"cache_code", last'.addr, calls'[k + 7][2]>>
                     /\ \E c \in code' \cap code_reverse' :
                          /\ codes'[c].guest_addr = last'.addr
                          /\ codes'[c].host_addr = calls'[k + 7][2]
                          /\ \A d \in code \cup code_reverse :
                               codes[d].host_addr # codes'[c].host_addr
                ELSE /\ CountCalls(calls', "cache_code") = 0
                     /\ code' = {} /\ code_reverse' = {}]_vars

\* compile_code has analysed two blocks, translated, run the passes,
\* assembled and then finalized: eleven calls, the last one cache_code
C28_Witness ==
  /\ last.op = "compile_code" /\ last.res = "ok"
  /\ Len(calls) = 11
  /\ calls[1][1] = "analyze_code" /\ calls[2][1] = "analyze_code"
  /\ SubSeq(calls, 3, 9) = PipelineCalls(last.addr, last.fastmem)
  /\ calls[10] = <<"assemble_code", last.dst, calls[10][3]>>
  /\ calls[11] = <<"cache_code", last.addr, last.dst>>

\* the instruction in the k-th slot of the block under analysis, k from 0
InstrAt(k) ==
  IF analysis.isa = "sh4"
  THEN r16(analysis.mem, U32Add(analysis.meta.guest_addr, 2 * k))
  ELSE r32(analysis.mem, U32Add(analysis.meta.guest_addr, 4 * k))

\* an instruction that decodes, has no delay slot and does not end a block
Plain(i) ==
  /\ i.op # "INVALID"
  /\ IF analysis.isa = "sh4" THEN i.flags = {} ELSE ~armv3_changes_pc(i)

\* the cycles analyze_code counts for the first k slots of the block
RECURSIVE SumCycles(_)
SumCycles(k) ==
  IF k = 0 THEN 0
  ELSE SumCycles(k - 1)
       + (IF analysis.isa = "sh4" THEN InstrAt(k - 1).cycles ELSE 12)

\* C29: an invalid opcode ends the block in both frontends: met after k >= 1
\* valid instructions, analyze_code returns true with num_instrs, size and
\* num_cycles covering those k instructions; analyze_code returns false
\* only when the opening instruction at meta.guest_addr is invalid
C29_InvalidOpcodeEndsBlock ==
  (analysis.ret # -1)
  => /\ analysis.ret = 0 => InstrAt(0).op = "INVALID"
     /\ \A k \in 1..MaxInstrs :
          (/\ \A j \in 0..(k - 1) : Plain(InstrAt(j))
           /\ InstrAt(k).op = "INVALID")
          => /\ analysis.ret = 1
             /\ analysis.meta.num_instrs = k
             /\ analysis.meta.size = k * (IF analysis.isa = "sh4" THEN 2 ELSE 4)
             /\ analysis.meta.num_cycles = SumCycles(k)

\* C30: in sh4_frontend_analyze_code an instruction flagged as delayed
\* consumes the next 16-bit slot: the delay-slot instruction is counted in
\* num_instrs, num_cycles and size (2 more bytes) before the block ends at
\* the branch, and a delay-slot instruction that does not decode, or is
\* itself delayed, stops the process with a failed assertion, with no
\* value returned
C30_DelaySlotCounted ==
  (analysis.isa = "sh4" /\ (analysis.ret # -1 \/ fault # "none"))
  => \A k \in 0..(MaxInstrs - 1) :
       (/\ \A j \in 0..(k - 1) : Plain(InstrAt(j))
        /\ "DELAYED" \in InstrAt(k).flags
        /\ "BRANCH" \in InstrAt(k).flags)
       => IF InstrAt(k + 1).op = "INVALID"
          THEN fault = "CHECK(sh4_disasm(&delay_instr))" /\ analysis.ret = -1
          ELSE IF "DELAYED" \in InstrAt(k + 1).flags
          THEN /\ fault = "CHECK(!(delay_instr.flags & SH4_FLAG_DELAYED))"
               /\ analysis.ret = -1
          ELSE /\ fault = "none"
               /\ analysis.ret = 1
               /\ analysis.meta.num_instrs = k + 2
               /\ analysis.meta.size = 2 * (k + 2)
               /\ analysis.meta.num_cycles = SumCycles(k + 2)

\* the sh4 frontend has analysed a block of a plain instruction, a delayed
\* branch and the instruction in its delay slot: three instructions and
\* six bytes are counted
C30_Witness ==
  /\ analysis.isa = "sh4" /\ analysis.ret = 1 /\ fault = "none"
  /\ Plain(InstrAt(0))
  /\ "DELAYED" \in InstrAt(1).flags
  /\ Plain(InstrAt(2))
  /\ analysis.meta.num_instrs = 3
  /\ analysis.meta.size = 6
  /\ analysis.meta.num_cycles = SumCycles(3)
  /\ analysis.meta.branch_type = "STATIC"

\* C34: between operations, every host branch site that was last rewritten
\* by patch_edge is the branch of an existing edge with patched = 1 whose
\* destination is a registered code, not invalidated, at the address the
\* site jumps to: no edge is destroyed with its branch left patched
C34_PatchedSiteHasEdge ==
  \A h \in HostAddrs :
    sites[h] # NULL
    => \E e \in DOMAIN edges :
         /\ edges[e].branch = h
         /\ edges[e].patched = 1
         /\ edges[e].dst \in code \cap code_reverse
         /\ ~Invalidated(Jit, edges[e].dst)
         /\ codes[edges[e].dst].host_addr = sites[h]

\* C35: between operations, the dispatcher maps guest address a to host
\* address h if and only if a code with guest_addr a and host_addr h is in
\* the maps and is not invalidated; so jit_is_stale(c) holds for exactly
\* the invalidated codes in the maps
C35_DispatchIffLive ==
  /\ \A a \in Addrs, h \in HostAddrs :
       dispatch[a] = h
       <=> \E c \in code \cap code_reverse :
             /\ codes[c].guest_addr = a
             /\ codes[c].host_addr = h
             /\ ~Invalidated(Jit, c)
  /\ \A a \in Addrs : dispatch[a] \in HostAddrs \cup {NULL}
  /\ \A c \in code \cup code_reverse :
       jit_is_stale(Jit, c) <=> Invalidated(Jit, c)

\* the cache holds a live code that the dispatcher maps and an invalidated
\* code whose address the dispatcher no longer maps
C35_Witness ==
  \E c, d \in code \cap code_reverse :
    /\ ~Invalidated(Jit, c)
    /\ dispatch[codes[c].guest_addr] = codes[c].host_addr
    /\ ~jit_is_stale(Jit, c)
    /\ Invalidated(Jit, d)
    /\ dispatch[codes[d].guest_addr] = NULL
    /\ jit_is_stale(Jit, d)

\* C36: between operations every existing edge has patched = 1; an edge
\* is unpatched only inside add_edge, before patch_edges, and inside
\* invalidate_code, which destroys every edge it has restored
C36_EdgesPatched ==
  /\ \A e \in DOMAIN edges : edges[e].patched = 1
  /\ \A c \in DOMAIN codes :
       \A e \in DOMAIN InvalidatedOnce(c).edges :
         InvalidatedOnce(c).edges[e].patched = 1

\* add_edge has just created an edge between two different codes and
\* patched its branch
C36_Witness ==
  /\ last.op = "add_edge"
  /\ calls # <<>> /\ calls[1][1] = "patch_edge"
  /\ \E e \in DOMAIN edges :
       /\ edges[e].branch = calls[1][2]
       /\ edges[e].patched = 1
       /\ edges[e].src # edges[e].dst

\* C37: at most one edge exists per branch host address: add_edge with
\* the branch address and destination of an edge that still exists creates
\* no second edge and calls guest.patch_edge no second time
C37_OneEdgePerBranch ==
  [][/\ \A e, f \in DOMAIN edges' :
          edges'[e].branch = edges'[f].branch => e = f
     /\ last'.op = "add_edge"
        => \A i \in DOMAIN calls' :
             calls'[i][1] = "patch_edge"
             => \A e \in DOMAIN edges : edges[e].branch # calls'[i][2]]_vars

\* the unit tree the coordinator's walk builds from the analysed meta: the
\* walk of a new code at the meta's address, over a memory in which the
\* block at that address analyses as the meta says
TreeOfAnalysis ==
  jit_analyze_code_r(
    NewCode(Jit, analysis.meta.guest_addr, 0).J,
    NewCode(Jit, analysis.meta.guest_addr, 0).code,
    [a \in {analysis.meta.guest_addr} |->
       [ok |-> TRUE, branch_addr |-> analysis.meta.branch_addr,
        next_addr |-> analysis.meta.next_addr]],
    analysis.meta.guest_addr, <<>>).unit

\* C40: with the armv3 frontend every meta keeps branch_type FALL_THROUGH
\* and branch_addr = next_addr = INVALID_ADDR, so the unit tree of a
\* compiled code is the root unit alone, with no branch and no next child
C40_Armv3RootOnly ==
  analysis.isa = "armv3"
  => /\ analysis.meta.branch_type = "FALL_THROUGH"
     /\ analysis.meta.branch_addr = INVALID_ADDR
     /\ analysis.meta.next_addr = INVALID_ADDR
     /\ analysis.ret = 1
        => TreeOfAnalysis = <<[meta |-> analysis.meta.guest_addr,
                               branch |-> <<>>, next |-> <<>>]>>

\* the armv3 frontend has analysed a block of two instructions that ends
\* with a branch: the meta has no successor and the tree is the root alone
C40_Witness ==
  /\ analysis.isa = "armv3" /\ analysis.ret = 1
  /\ analysis.meta.num_instrs = 2
  /\ armv3_changes_pc(InstrAt(1))
  /\ "BRANCH" \in InstrAt(1).flags
  /\ analysis.meta.branch_addr = INVALID_ADDR
  /\ TreeOfAnalysis # <<>>
  /\ TreeOfAnalysis[1].branch = <<>> /\ TreeOfAnalysis[1].next = <<>>

\* the low and the high 16 bits of a 32-bit value
Lo16(x) == x % 65536
Hi16(x) == (x \div 65536) % 65536

\* x is (a + k) mod 2^32, computed on the two halves with the carry
IsSumMod32(x, a, k) ==
  /\ Lo16(x) = (Lo16(a) + k) % 65536
  /\ Hi16(x) = (Hi16(a) + ((Lo16(a) + k) \div 65536)) % 65536

\* C31: for a conditional branch at address a with 8-bit displacement d,
\* sh4 analyze_code sets branch_addr = (a + 4 + 2*signext8(d)) mod 2^32,
\* branch_type STATIC_TRUE for BT and BT/S and STATIC_FALSE for BF and
\* BF/S, and next_addr = a + 2 for BT and BF, a + 4 for the delayed forms;
\* for BRA and BSR with 12-bit displacement d it sets branch_addr =
\* (a + 4 + 2*signext12(d)) mod 2^32 and type STATIC and leaves next_addr
\* = INVALID_ADDR
C31_BranchTargets ==
  (analysis.isa = "sh4" /\ analysis.ret = 1)
  => \A k \in 0..(MaxInstrs - 1) :
       (/\ \A j \in 0..(k - 1) : Plain(InstrAt(j))
        /\ "BRANCH" \in InstrAt(k).flags)
       => /\ InstrAt(k).op \in {"BT", "BTS", "BF", "BFS"}
             => /\ analysis.meta.branch_type =
                     (IF InstrAt(k).op \in {"BT", "BTS"} THEN "STATIC_TRUE"
                      ELSE "STATIC_FALSE")
                /\ IsSumMod32(analysis.meta.branch_addr,
                              analysis.meta.guest_addr,
                              2 * k + 4
                              + 2 * (IF InstrAt(k).disp >= 128
                                     THEN InstrAt(k).disp - 256
                                     ELSE InstrAt(k).disp))
                /\ IsSumMod32(analysis.meta.next_addr,
                              analysis.meta.guest_addr,
                              2 * k + (IF InstrAt(k).op \in {"BT", "BF"}
                                       THEN 2 ELSE 4))
          /\ InstrAt(k).op \in {"BRA", "BSR"}
             => /\ analysis.meta.branch_type = "STATIC"
                /\ IsSumMod32(analysis.meta.branch_addr,
                              analysis.meta.guest_addr,
                              2 * k + 4
                              + 2 * (IF InstrAt(k).disp >= 2048
                                     THEN InstrAt(k).disp - 4096
                                     ELSE InstrAt(k).disp))
                /\ analysis.meta.next_addr = INVALID_ADDR

\* BT with displacement 2 at 0x8c010000 has been analysed: branch_addr is
\* 0x8c010008, next_addr is 0x8c010002 and the type is STATIC_TRUE
C31_Witness ==
  /\ analysis.isa = "sh4" /\ analysis.ret = 1
  /\ analysis.meta.guest_addr = -1946091520
  /\ InstrAt(0).op = "BT" /\ InstrAt(0).disp = 2
  /\ analysis.meta.branch_type = "STATIC_TRUE"
  /\ analysis.meta.branch_addr = -1946091512
  /\ analysis.meta.next_addr = -1946091518

\* the branch instructions of block b, in order
BranchesOf(b) ==
  SelectSeq(ir.blocks[b].instrs,
            LAMBDA i : i.op \in {"BRANCH", "BRANCH_TRUE", "BRANCH_FALSE"})

\* the CFG edges that leave block b, in the order they were added
EdgesFrom(b) == SelectSeq(ir.edges, LAMBDA e : e[1] = b)

\* some CFG edge goes from block b to block d
HasEdge(b, d) == \E k \in DOMAIN ir.edges : ir.edges[k] = <<b, d>>

\* C32: after cfa_run, a block that holds a BRANCH to a block has an edge
\* to that block; a block that holds a BRANCH_TRUE or BRANCH_FALSE to a block
\* has an edge to that block and, unless it is the last block, an edge to
\* the block after it.
C32_BlockTargetsGetEdges ==
  ir.stage = "edges" =>
    \A b \in DOMAIN ir.blocks :
      \A k \in DOMAIN ir.blocks[b].instrs :
        LET instr == ir.blocks[b].instrs[k] IN
          /\ instr.op = "BRANCH" /\ instr.arg.type = "BLOCK"
               => HasEdge(b, instr.arg.n)
          /\ instr.op \in {"BRANCH_TRUE", "BRANCH_FALSE"}
             /\ instr.arg.type = "BLOCK"
               => /\ HasEdge(b, instr.arg.n)
                  /\ b < Len(ir.blocks) => HasEdge(b, b + 1)

\* cfa_run has run on two blocks, the first ending in a conditional branch
\* to itself, and has given it both edges
C32_Witness ==
  /\ ir.stage = "edges"
  /\ Len(ir.blocks) = 2
  /\ ir.blocks[1].instrs
       = <<Instr("OTHER", "", NoValue),
           Instr("BRANCH_TRUE", "", Value("BLOCK", 1, ""))>>
  /\ ir.blocks[2].instrs = <<Instr("BRANCH", "", Value("BLOCK", 1, ""))>>
  /\ ir.edges = << <<1, 1>>, <<1, 2>>, <<2, 1>> >>

\* C39: after cfa_run, a block whose branches all go to something that is
\* not a block has one edge per BRANCH_TRUE or BRANCH_FALSE, each to the
\* block after it, and no edge at all when it is the last block or when its
\* branches are all unconditional.
C39_NonBlockTargets ==
  ir.stage = "edges" =>
    \A b \in DOMAIN ir.blocks :
      (\A k \in DOMAIN BranchesOf(b) : BranchesOf(b)[k].arg.type # "BLOCK")
        => /\ Len(EdgesFrom(b))
                = (IF b = Len(ir.blocks) THEN 0
                   ELSE Len(SelectSeq(BranchesOf(b),
                                      LAMBDA i : i.op # "BRANCH")))
           /\ \A k \in DOMAIN EdgesFrom(b) : EdgesFrom(b)[k] = <<b, b + 1>>

\* cfa_run has run on two blocks that each branch conditionally to a host
\* pointer, the first also unconditionally: one edge, from the first block
C39_Witness ==
  /\ ir.stage = "edges"
  /\ Len(ir.blocks) = 2
  /\ ir.blocks[1].instrs
       = <<Instr("BRANCH_FALSE", "", Value("PTR", 0, "dispatch")),
           Instr("BRANCH", "", Value("PTR", 0, "dispatch"))>>
  /\ ir.blocks[2].instrs
       = <<Instr("BRANCH_TRUE", "", Value("PTR", 0, "dispatch"))>>
  /\ ir.edges = << <<1, 2>> >>

\* the blocks that hold the instructions of compile unit u
BlocksOfUnit(u) == {b \in DOMAIN ir.blocks : ir.blocks[b].unit = u.meta}

\* block b is a static-dispatch thunk for addr
IsStaticThunk(b, addr) ==
  /\ ir.blocks[b].unit = INVALID_ADDR
  /\ ir.blocks[b].instrs
       = <<Instr("STORE_CONTEXT", "pc", Value("I32", addr, "")),
           Instr("CALL_NORETURN", "", Value("PTR", 0, "sh4_dispatch_static"))>>

\* C38: in the IR sh4_translate emits, every compile unit has one block, and
\* the block after it in the block list is the block of unit.next when that
\* child exists, otherwise a static-dispatch thunk that stores next_addr to
\* pc; a conditional terminator is the last instruction of the unit's block,
\* and cfa_run gives that block an edge to the block after it.
C38_FallThroughIsNext ==
  ir.stage \in {"blocks", "edges"} /\ ir.root_unit # <<>> =>
    \A u \in SubUnits(ir.root_unit) :
      /\ Cardinality(BlocksOfUnit(u)) = 1
      /\ \A b \in BlocksOfUnit(u) :
           /\ b + 1 \in DOMAIN ir.blocks
           /\ IF u.next # <<>>
              THEN /\ BlocksOfUnit(u.next[1]) = {b + 1}
                   /\ u.next[1].meta = ir.metas[u.meta].next_addr
              ELSE IsStaticThunk(b + 1, ir.metas[u.meta].next_addr)
           /\ ir.metas[u.meta].branch_type \in {"STATIC_TRUE", "STATIC_FALSE"}
                => /\ ir.blocks[b].instrs[Len(ir.blocks[b].instrs)].op
                        = (IF ir.metas[u.meta].branch_type = "STATIC_TRUE"
                           THEN "BRANCH_TRUE" ELSE "BRANCH_FALSE")
                   /\ ir.stage = "edges" => HasEdge(b, b + 1)

\* a root that ends in a conditional branch has been translated with both
\* children inlined, and so has a next child that itself has no next child
C38_Witness ==
  /\ ir.stage = "edges"
  /\ ir.root_unit # <<>>
  /\ ir.root_unit[1].next # <<>>
  /\ ir.root_unit[1].branch # <<>>
  /\ ir.metas[ir.root_unit[1].meta].branch_type = "STATIC_FALSE"
  /\ Len(ir.blocks) = 7
  /\ ir.blocks[3].unit = ir.root_unit[1].meta
  /\ ir.blocks[4].unit = ir.root_unit[1].next[1].meta
  /\ IsStaticThunk(5, ir.metas[ir.blocks[4].unit].next_addr)
  /\ ir.blocks[6].unit = ir.root_unit[1].branch[1].meta
  /\ HasEdge(3, 4) /\ HasEdge(3, 6)

\* block b is the yield check: leave through sh4_dispatch_leave when
\* remaining_cycles <= 0
IsYieldCheck(b) ==
  ir.blocks[b].instrs
    = <<Instr("CMP_SLE", "remaining_cycles", Value("I32", 0, "")),
        Instr("BRANCH_TRUE", "", Value("PTR", 0, "sh4_dispatch_leave"))>>

\* block b is the pending-interrupt check
IsInterruptCheck(b) ==
  ir.blocks[b].instrs
    = <<Instr("LOAD_CONTEXT", "pending_interrupts", NoValue),
        Instr("BRANCH_TRUE", "", Value("PTR", 0, "sh4_dispatch_interrupt"))>>

\* C33: in the IR sh4_translate emits, the block of every compile unit, the
\* root's and each inlined child's, comes right after a yield check and a
\* pending-interrupt check, and starts by taking meta.num_cycles from
\* remaining_cycles and adding meta.num_instrs to ran_instrs.
C33_EveryUnitChecked ==
  ir.stage \in {"blocks", "edges"} /\ ir.root_unit # <<>> =>
    \A u \in SubUnits(ir.root_unit) :
      \A b \in BlocksOfUnit(u) :
        /\ b > 2
        /\ IsYieldCheck(b - 2)
        /\ IsInterruptCheck(b - 1)
        /\ ir.blocks[b].instrs[1]
             = Instr("SUB", "remaining_cycles",
                     Value("I32", ir.metas[u.meta].num_cycles, ""))
        /\ ir.blocks[b].instrs[2]
             = Instr("ADD", "ran_instrs",
                     Value("I64", ir.metas[u.meta].num_instrs, ""))
====
